---- MODULE Spec2Model ----
(***************************************************************************)
(* Kinematics core of the robotics toolbox: roboticstoolbox/core/fknm.c    *)
(* (the CPython extension) and roboticstoolbox/core/methods.cpp (the Eigen *)
(* port of the same routines).                                             *)
(*                                                                         *)
(* Numbers.  The code computes in IEEE doubles.  The model computes        *)
(* exactly, on the grid on which the code's arithmetic is exact:           *)
(*   - lengths are integers;                                               *)
(*   - angles passed to rx/ry/rz are whole quarter turns: the joint value  *)
(*     eta of a rotational element stands for eta * pi/2, so that cos and  *)
(*     sin take the values 0, 1, -1 and every pose is an integer matrix;   *)
(*   - angles returned by atan2 and M_PI_2 are counted in units of pi/12;  *)
(*   - a value divided by a square root is kept as the record              *)
(*     [num, rad, unit], meaning num / sqrt(rad) in that unit.             *)
(* A 4x4 buffer is a function on 0..15, row-major, indexed as in the code  *)
(* (data[i * 4 + j]).                                                      *)
(***************************************************************************)
EXTENDS Integers, Sequences, FiniteSets, TLC

VARIABLES
    pc,       \* the entry point about to run, or "done"
    ets,      \* the chain: a Python list of ET capsules
    n,        \* the joint count handed to the Jacobian / Hessian entry points
    q,        \* the configuration buffer (flat, row-major)
    q_shape,  \* the numpy shape of q: <<n>> or <<rows, cols>>
    base,     \* base pose or NULL
    tool,     \* tool pose or NULL
    include_base, \* ETS_fkine: the include_base flag
    Tep,      \* target pose of _angle_axis / _ETS_IK
    Te,       \* achieved pose buffer of _angle_axis / _ETS_IK
    e,        \* the 6-vector error buffer
    J,        \* the Jacobian buffer read by _ETS_hessian
    H,        \* the Hessian buffer written by _ETS_hessian
    iter,     \* _ETS_IK: iteration counter
    arrived,  \* _ETS_IK: arrival flag
    ret,      \* what the last call returned: [op |-> name, val |-> value]
    links,    \* the link tree: a Python list of Link capsules
    calls,    \* the calls on the shared chain: one per caller while in progress, or the log of the calls made
    heap      \* the memory behind the caller's handles: ET structures by handle, arrays by name

vars == <<pc, ets, n, q, q_shape, base, tool, include_base, Tep, Te, e, J, H, iter, arrived, ret,
          links, calls, heap>>

\* a null pointer: the buffer with no element
NULL == <<>>
NoRet == [op |-> "none", val |-> NULL]

----------------------------------------------------------------------------
(* Bounds of the model *)

\* longest chain (number of elementary transforms)
MaxLen == 2
\* largest batch: rows of a stacked configuration matrix
MaxTraj == 2
\* largest joint count: columns of a stacked configuration matrix
MaxJoints == 2

\* joint values: as lengths -1..2, as angles -pi/2, 0, pi/2, pi
QVals == {-1, 0, 1, 2}

----------------------------------------------------------------------------
(* Transform algebra: fknm.c 1955-2173 *)

\* a buffer holds numbers: f with its entries computed once, here, instead of
\* at every later read
Values(f) == IF f = f THEN f ELSE f

\* a 16-element literal, written row by row, as a buffer on 0..15
Buf16(s) == [x \in 0..15 |-> s[x + 1]]

\* cos and sin of eta quarter turns
cos(eta) == CASE eta % 4 = 0 -> 1 [] eta % 4 = 1 -> 0 [] eta % 4 = 2 -> -1 [] OTHER -> 0
sin(eta) == CASE eta % 4 = 0 -> 0 [] eta % 4 = 1 -> 1 [] eta % 4 = 2 -> 0 [] OTHER -> -1

\* PyMem_RawCalloc(16, sizeof(npy_float64))
Calloc16 == [x \in 0..15 |-> 0]

copy(A) == [x \in 0..15 |-> A[x]]

mult(A, B) ==
    Values([x \in 0..15 |->
        LET i == x \div 4
            j == x % 4
        IN  A[i * 4 + 0] * B[0 * 4 + j] + A[i * 4 + 1] * B[1 * 4 + j]
            + A[i * 4 + 2] * B[2 * 4 + j] + A[i * 4 + 3] * B[3 * 4 + j]])

rx(eta) ==
    LET ct == cos(eta)
        st == sin(eta)
    IN  Buf16(<<1, 0, 0, 0,   0, ct, -st, 0,   0, st, ct, 0,   0, 0, 0, 1>>)

ry(eta) ==
    LET ct == cos(eta)
        st == sin(eta)
    IN  Buf16(<<ct, 0, st, 0,   0, 1, 0, 0,   -st, 0, ct, 0,   0, 0, 0, 1>>)

rz(eta) ==
    LET ct == cos(eta)
        st == sin(eta)
    IN  Buf16(<<ct, -st, 0, 0,   st, ct, 0, 0,   0, 0, 1, 0,   0, 0, 0, 1>>)

tx(eta) == Buf16(<<1, 0, 0, eta,   0, 1, 0, 0,   0, 0, 1, 0,   0, 0, 0, 1>>)

ty(eta) == Buf16(<<1, 0, 0, 0,   0, 1, 0, eta,   0, 0, 1, 0,   0, 0, 0, 1>>)

tz(eta) == Buf16(<<1, 0, 0, 0,   0, 1, 0, 0,   0, 0, 1, eta,   0, 0, 0, 1>>)

\* mutant of _inv: the rotation block is copied, not transposed
inv_untransposed(m) ==
    LET i0 == m[0]   i1 == m[1]   i2 == m[2]
        i4 == m[4]   i5 == m[5]   i6 == m[6]
        i8 == m[8]   i9 == m[9]   i10 == m[10]
    IN  Buf16(<<i0, i1, i2, -(i0 * m[3] + i1 * m[7] + i2 * m[11]),
                i4, i5, i6, -(i4 * m[3] + i5 * m[7] + i6 * m[11]),
                i8, i9, i10, -(i8 * m[3] + i9 * m[7] + i10 * m[11]),
                0, 0, 0, 1>>)

_eye4 == Buf16(<<1, 0, 0, 0,   0, 1, 0, 0,   0, 0, 1, 0,   0, 0, 0, 1>>)

_inv(m) ==
    LET i0 == m[0]   i1 == m[4]   i2 == m[8]
        i4 == m[1]   i5 == m[5]   i6 == m[9]
        i8 == m[2]   i9 == m[6]   i10 == m[10]
    IN  Buf16(<<i0, i1, i2, -(i0 * m[3] + i1 * m[7] + i2 * m[11]),
                i4, i5, i6, -(i4 * m[3] + i5 * m[7] + i6 * m[11]),
                i8, i9, i10, -(i8 * m[3] + i9 * m[7] + i10 * m[11]),
                0, 0, 0, 1>>)

----------------------------------------------------------------------------
(* Elementary transforms: the ET struct as ET_init fills it, and _ET_T *)

\* et->op as ET_init selects it from jointtype
ET_op(axis, eta) ==
    CASE axis = 0 -> rx(eta)
      [] axis = 1 -> ry(eta)
      [] axis = 2 -> rz(eta)
      [] axis = 3 -> tx(eta)
      [] axis = 4 -> ty(eta)
      [] axis = 5 -> tz(eta)

ET_init(isjoint, isflip, jindex, jointtype, T) ==
    [isjoint |-> isjoint, isflip |-> isflip, jindex |-> jindex, axis |-> jointtype, T |-> T]

\* mutant of _ET_T: the flip flag is not looked at
ET_T_unflipped(et, eta) ==
    IF ~et.isjoint
    THEN copy(et.T)
    ELSE ET_op(et.axis, eta)

\* fknm.c: static elements return et->T, joints negate eta on flip and call et->op
_ET_T(et, eta) ==
    IF ~et.isjoint
    THEN copy(et.T)
    ELSE ET_op(et.axis, IF et.isflip THEN -eta ELSE eta)

\* methods.cpp: the same routine, _copy for copy
methods_ET_T(et, eta) ==
    IF ~et.isjoint
    THEN copy(et.T)
    ELSE ET_op(et.axis, IF et.isflip THEN -eta ELSE eta)

----------------------------------------------------------------------------
(* Chain forward kinematics *)

\* fknm.c _ETS_fkine, the loop over the m elements.  ret receives the
\* element's transform; the product into temp is commented out in the
\* source, so temp keeps what calloc gave it and is copied over current.
RECURSIVE fknm_fkine_loop(_, _, _, _, _)
fknm_fkine_loop(chain, qp, i, temp, current) ==
    IF i >= Len(chain)
    THEN current
    ELSE LET et == chain[i + 1]
             r == _ET_T(et, qp[et.jindex])
         IN  fknm_fkine_loop(chain, qp, i + 1, temp, copy(temp))

\* fknm.c _ETS_fkine(ets, q, base, tool, ret)
fknm_ETS_fkine(chain, qp, b, t) ==
    LET temp == Calloc16
        start == IF b # NULL THEN copy(b) ELSE _eye4
        current == fknm_fkine_loop(chain, qp, 0, temp, start)
    IN  IF t # NULL THEN mult(current, t) ELSE copy(current)

\* methods.cpp _ETS_fkine, the loop over ets->m elements
RECURSIVE methods_fkine_loop(_, _, _, _)
methods_fkine_loop(chain, qp, i, current) ==
    IF i >= Len(chain)
    THEN current
    ELSE LET et == chain[i + 1]
             e_ret == methods_ET_T(et, qp[et.jindex])
             temp == mult(current, e_ret)
         IN  methods_fkine_loop(chain, qp, i + 1, temp)

\* methods.cpp _ETS_fkine(ets, q, base, tool, e_ret)
methods_ETS_fkine(chain, qp, b, t) ==
    LET start == IF b # NULL THEN b ELSE _eye4
        current == methods_fkine_loop(chain, qp, 0, start)
    IN  IF t # NULL THEN mult(current, t) ELSE current

----------------------------------------------------------------------------
(* Input domains *)

\* rigid poses used as static transforms, base and tool
PoseA == mult(tz(1), rx(1))
PoseB == mult(tx(2), rz(-1))

\* elementary transforms a chain is built from
Joint(axis, isflip, jindex) == ET_init(TRUE, isflip, jindex, axis, _eye4)
Static(T) == ET_init(FALSE, FALSE, 0, 0, T)

ETsFK ==
    {Joint(2, FALSE, 0), Joint(0, FALSE, 1), Joint(1, TRUE, 0), Joint(3, FALSE, 1),
     Joint(5, TRUE, 0), Joint(4, FALSE, 0), Static(PoseA), Static(PoseB)}

SeqsUpTo(S, k) == UNION {[1..m -> S] : m \in 0..k}

\* a configuration of two joints
Qs2 == [0..1 -> QVals]

----------------------------------------------------------------------------
(* Forward kinematics of one configuration: both implementations *)

InitFK ==
    /\ pc = "fkine"
    /\ ets \in SeqsUpTo(ETsFK, MaxLen)
    /\ n = 2
    /\ q \in Qs2
    /\ q_shape = <<2>>
    /\ base \in {NULL, PoseB}
    /\ tool \in {NULL, PoseA}
    /\ include_base = 1
    /\ Tep = NULL /\ Te = NULL /\ e = NULL /\ J = NULL /\ H = NULL
    /\ iter = 0 /\ arrived = 0
    /\ ret = NoRet
    /\ links = <<>> /\ calls = <<>> /\ heap = <<>>

Call_fknm_ETS_fkine ==
    /\ pc = "fkine"
    /\ ret' = [op |-> "fknm_ETS_fkine", val |-> fknm_ETS_fkine(ets, q, base, tool)]
    /\ pc' = "done"
    /\ UNCHANGED <<ets, n, q, q_shape, base, tool, include_base, Tep, Te, e, J, H, iter, arrived, links, calls, heap>>

Call_methods_ETS_fkine ==
    /\ pc = "fkine"
    /\ ret' = [op |-> "methods_ETS_fkine", val |-> methods_ETS_fkine(ets, q, base, tool)]
    /\ pc' = "done"
    /\ UNCHANGED <<ets, n, q, q_shape, base, tool, include_base, Tep, Te, e, J, H, iter, arrived, links, calls, heap>>

NextFK == Call_fknm_ETS_fkine \/ Call_methods_ETS_fkine

SpecFK == InitFK /\ [][NextFK]_vars

----------------------------------------------------------------------------
(* Claims on chain forward kinematics *)

\* base . E_1 . E_2 ... E_k . tool, folded from the right, with base and
\* tool counting as identity when absent
RECURSIVE ProductFrom(_, _, _, _)
ProductFrom(chain, qp, i, t) ==
    IF i > Len(chain)
    THEN (IF t = NULL THEN _eye4 ELSE t)
    ELSE mult(_ET_T(chain[i], qp[chain[i].jindex]), ProductFrom(chain, qp, i + 1, t))

ChainProduct(chain, qp, b, t) ==
    mult(IF b = NULL THEN _eye4 ELSE b, ProductFrom(chain, qp, 1, t))

IsFkineOp == ret.op \in {"fknm_ETS_fkine", "methods_ETS_fkine"}

\* C1: forward kinematics returns base . E_1 ... E_k . tool for every chain
\* (so, for a chain of Static elements, the product of the fixed poses).
C1_FkineIsChainProduct ==
    (pc = "done" /\ IsFkineOp) => ret.val = ChainProduct(ets, q, base, tool)

\* the canonical rotation about Z by theta quarter turns
CanonicalRotZ(theta) ==
    Buf16(<<cos(theta), -sin(theta), 0, 0,
            sin(theta), cos(theta), 0, 0,
            0, 0, 1, 0,
            0, 0, 0, 1>>)

\* C2: the chain [Joint(RotZ, flip=false, 0)] without base and tool evaluates
\* at q = [theta] to the canonical Z rotation, theta in {0, pi/2, pi, -pi/2}.
C2_SingleRotZIsCanonical ==
    (pc = "done" /\ ret.op = "fknm_ETS_fkine"
        /\ ets = <<Joint(2, FALSE, 0)>> /\ base = NULL /\ tool = NULL)
    => ret.val = CanonicalRotZ(q[0])

----------------------------------------------------------------------------
(* ETS_fkine, the Python entry point: one configuration or a trajectory *)

\* qp = q + off: the buffer seen through the advanced pointer
PtrAdd(data, off) == [j \in 0..(Cardinality(DOMAIN data) - off - 1) |-> data[off + j]]

\* fknm.c 602-627: trajectory length and joint count from the shape of q.
\* n is not initialised for a 1-D q: n0 stands for the value it then holds.
ETS_fkine_shape(shape, n0) ==
    IF Len(shape) > 1
    THEN IF shape[1] = 1
         THEN [trajn |-> 1, n |-> shape[2]]
         ELSE IF shape[2] = 1
              THEN [trajn |-> 1, n |-> shape[1]]
              ELSE [trajn |-> shape[1], n |-> shape[2]]
    ELSE [trajn |-> 1, n |-> n0]

\* fknm.c ETS_fkine: py_ret is 4x4 for one configuration, trajn x 4 x 4 for
\* a trajectory; base is passed on only with include_base set
ETS_fkine(chain, data, shape, py_base, py_tool, incl, n0) ==
    LET s == ETS_fkine_shape(shape, n0)
        b == IF py_base # NULL /\ incl # 0 THEN py_base ELSE NULL
        t == IF py_tool # NULL THEN py_tool ELSE NULL
    IN  [dims |-> IF s.trajn = 1 THEN <<4, 4>> ELSE <<s.trajn, 4, 4>>,
         poses |-> [i \in 0..(s.trajn - 1) |->
                        fknm_ETS_fkine(chain, PtrAdd(data, s.n * i), b, t)]]

\* chains evaluated as trajectories
BatchChains ==
    {<<>>, <<Joint(2, FALSE, 0)>>, <<Joint(2, FALSE, 0), Joint(3, FALSE, 1)>>,
     <<Static(PoseA), Joint(1, TRUE, 1)>>}

UsesOnly(chain, nj) == \A i \in 1..Len(chain) : chain[i].jindex < nj

\* shapes of q: a vector of cols joint values, or rows x cols
BatchShapes ==
    {<<c>> : c \in 1..MaxJoints} \cup {<<r, c>> : r \in 1..MaxTraj, c \in 1..MaxJoints}

Cells(shape) == IF Len(shape) = 1 THEN shape[1] ELSE shape[1] * shape[2]
Cols(shape) == shape[Len(shape)]

InitBatch ==
    /\ pc = "ETS_fkine"
    /\ q_shape \in BatchShapes
    /\ q \in [0..(Cells(q_shape) - 1) -> {0, 1}]
    /\ ets \in {c \in BatchChains : UsesOnly(c, Cols(q_shape))}
    /\ n \in {0, 7}
    /\ base \in {NULL, PoseB}
    /\ tool \in {NULL, PoseA}
    /\ include_base \in {0, 1}
    /\ Tep = NULL /\ Te = NULL /\ e = NULL /\ J = NULL /\ H = NULL
    /\ iter = 0 /\ arrived = 0
    /\ ret = NoRet
    /\ links = <<>> /\ calls = <<>> /\ heap = <<>>

Call_ETS_fkine ==
    /\ pc = "ETS_fkine"
    /\ ret' = [op |-> "ETS_fkine",
               val |-> ETS_fkine(ets, q, q_shape, base, tool, include_base, n)]
    /\ pc' = "done"
    /\ UNCHANGED <<ets, n, q, q_shape, base, tool, include_base, Tep, Te, e, J, H, iter, arrived, links, calls, heap>>

NextBatch == Call_ETS_fkine

SpecBatch == InitBatch /\ [][NextBatch]_vars

\* row i of a rows x cols matrix, as a 1 x cols matrix of its own
RowAlone(data, shape, i) == [j \in 0..(shape[2] - 1) |-> data[i * shape[2] + j]]

\* the forward kinematics of row i computed alone, same base and tool
FkineOfRow(i) ==
    ETS_fkine(ets, RowAlone(q, q_shape, i), <<1, q_shape[2]>>,
              base, tool, include_base, n).poses[0]

BatchReturnsRows ==
    /\ DOMAIN ret.val.poses = 0..(q_shape[1] - 1)
    /\ \A i \in 0..(q_shape[1] - 1) : ret.val.poses[i] = FkineOfRow(i)

\* C3 as stated: for every k >= 1 and n >= 1 a k x n matrix gives k poses,
\* the i-th being the forward kinematics of row i computed alone.
C3_BatchEveryShape ==
    (pc = "done" /\ ret.op = "ETS_fkine" /\ Len(q_shape) = 2) => BatchReturnsRows

\* where the rows are returned one by one: k x n with n >= 2 or k = 1.  A
\* k x 1 matrix with k >= 2 takes the q_shape[1] == 1 branch and gives one pose.
BatchRowsAwayFromColumns ==
    (pc = "done" /\ ret.op = "ETS_fkine" /\ Len(q_shape) = 2)
    => /\ (q_shape[2] >= 2 \/ q_shape[1] = 1) => BatchReturnsRows
       /\ (q_shape[2] = 1 /\ q_shape[1] >= 2)
            => /\ DOMAIN ret.val.poses = {0}
               /\ ret.val.dims = <<4, 4>>

----------------------------------------------------------------------------
(* Real numbers off the integer grid *)

\* num / sqrt(rad), in the unit "1" or "pi/12"; zero has one representation
Num(k) == [num |-> k, rad |-> 1, unit |-> "1"]
PiTwelfths(k) == IF k = 0 THEN Num(0) ELSE [num |-> k, rad |-> 1, unit |-> "pi/12"]

ISqrt(s) == CHOOSE r \in 0..s : r * r <= s /\ (r + 1) * (r + 1) > s

\* x / sqrt(s) for x with rad = 1
DivSqrt(x, s) ==
    LET r == ISqrt(s)
    IN  IF x.num = 0 THEN Num(0)
        ELSE IF r * r = s /\ x.num % r = 0
             THEN [x EXCEPT !.num = x.num \div r]
             ELSE [x EXCEPT !.rad = s]

\* atan2(sqrt(s), x) in units of pi/12, where it is a whole number of them
atan2(s, x) ==
    CASE s = 0 /\ x >= 0 -> 0
      [] s = 0 /\ x < 0 -> 12
      [] s > 0 /\ x = 0 -> 6
      [] s > 0 /\ x > 0 /\ 3 * s = x * x -> 2
      [] s > 0 /\ x > 0 /\ s = x * x -> 3
      [] s > 0 /\ x > 0 /\ s = 3 * x * x -> 4
      [] s > 0 /\ x < 0 /\ s = 3 * x * x -> 8
      [] s > 0 /\ x < 0 /\ s = x * x -> 9
      [] s > 0 /\ x < 0 /\ 3 * s = x * x -> 10

----------------------------------------------------------------------------
(* Pose error: fknm.c _cross, _norm, _trace, _angle_axis *)

\* _norm(a, n) = sqrt(sum): the model returns the sum under the root
_norm(a, len) ==
    LET RECURSIVE acc(_)
        acc(i) == IF i >= len THEN 0 ELSE a[i] * a[i] + acc(i + 1)
    IN  acc(0)

_trace(a, len) ==
    LET RECURSIVE acc(_)
        acc(i) == IF i >= len THEN 0 ELSE a[i * len + i] + acc(i + 1)
    IN  acc(0)

\* mutant of angle_axis_R: Te's rotation block is not transposed
angle_axis_R_untransposed(Te_, Tep_) ==
    [x \in 0..8 |->
        LET i == x \div 3
            j == x % 3
        IN  Tep_[i * 4 + 0] * Te_[0 * 4 + j] + Tep_[i * 4 + 1] * Te_[1 * 4 + j]
            + Tep_[i * 4 + 2] * Te_[2 * 4 + j]]

\* fknm.c 2257-2270: R = Tep[:3, :3] @ Te[:3, :3].T, a 3x3 buffer
angle_axis_R(Te_, Tep_) ==
    [x \in 0..8 |->
        LET i == x \div 3
            j == x % 3
        IN  Tep_[i * 4 + 0] * Te_[j * 4 + 0] + Tep_[i * 4 + 1] * Te_[j * 4 + 1]
            + Tep_[i * 4 + 2] * Te_[j * 4 + 2]]

\* fknm.c 2272-2275
angle_axis_li(R) ==
    [k \in 0..2 |->
        CASE k = 0 -> R[2 * 3 + 1] - R[1 * 3 + 2]
          [] k = 1 -> R[0 * 3 + 2] - R[2 * 3 + 0]
          [] k = 2 -> R[1 * 3 + 0] - R[0 * 3 + 1]]

\* mutant of angle_axis_rot: the diagonal case does not look at the trace
angle_axis_rot_anytrace(R) ==
    LET li == angle_axis_li(R)
        li_norm == _norm(li, 3)
        ang == atan2(li_norm, _trace(R, 3) - 1)
    IN  IF li_norm = 0
        THEN [k \in 0..2 |-> Num(0)]
        ELSE [k \in 0..2 |-> DivSqrt(PiTwelfths(ang * li[k]), li_norm)]

\* fknm.c 2277-2308: e[3..5].  li_norm < 1e-6 is li_norm = 0 on the grid,
\* M_PI_2 is 6 twelfths of pi
angle_axis_rot(R) ==
    LET li == angle_axis_li(R)
        li_norm == _norm(li, 3)
        R_tr == _trace(R, 3)
    IN  IF li_norm = 0
        THEN IF R_tr > 0
             THEN [k \in 0..2 |-> Num(0)]
             ELSE [k \in 0..2 |-> PiTwelfths(6 * (R[k * 4] + 1))]
        ELSE LET ang == atan2(li_norm, R_tr - 1)
             IN  [k \in 0..2 |-> DivSqrt(PiTwelfths(ang * li[k]), li_norm)]

\* fknm.c _angle_axis(Te, Tep, e)
_angle_axis(Te_, Tep_) ==
    LET rot == angle_axis_rot(angle_axis_R(Te_, Tep_))
    IN  [k \in 0..5 |->
            IF k < 3
            THEN Num(Tep_[k * 4 + 3] - Te_[k * 4 + 3])
            ELSE rot[k - 3]]

----------------------------------------------------------------------------
(* Pose error of two rigid poses *)

\* the 24 rotations reachable by quarter turns, at two positions
Rotations == {mult(mult(rz(a), ry(b)), rx(c)) : a \in 0..3, b \in 0..3, c \in 0..3}
Translations == {_eye4, mult(mult(tx(1), ty(-2)), tz(3))}
RigidPoses == {mult(t, r) : t \in Translations, r \in Rotations}

InitAA ==
    /\ pc = "_angle_axis"
    /\ Te \in RigidPoses
    /\ Tep \in RigidPoses
    /\ ets = <<>> /\ n = 0 /\ q = <<>> /\ q_shape = <<0>>
    /\ base = NULL /\ tool = NULL /\ include_base = 0
    /\ e = NULL /\ J = NULL /\ H = NULL
    /\ iter = 0 /\ arrived = 0
    /\ ret = NoRet
    /\ links = <<>> /\ calls = <<>> /\ heap = <<>>

Call_angle_axis ==
    /\ pc = "_angle_axis"
    /\ e' = _angle_axis(Te, Tep)
    /\ ret' = [op |-> "_angle_axis", val |-> e']
    /\ pc' = "done"
    /\ UNCHANGED <<ets, n, q, q_shape, base, tool, include_base, Tep, Te, J, H, iter, arrived, links, calls, heap>>

NextAA == Call_angle_axis

SpecAA == InitAA /\ [][NextAA]_vars

AngleAxisDone == pc = "done" /\ ret.op = "_angle_axis"

\* C8: poseError(P, P) is the zero 6-vector for every rigid P.
C8_SelfErrorIsZero ==
    (AngleAxisDone /\ Te = Tep) => e = [k \in 0..5 |-> Num(0)]

C8_Witness ==
    AngleAxisDone /\ Te = Tep /\ Te[0] # 1 /\ Te[3] # 0 /\ e[5] = Num(0)

\* the claim's R = target.rotation . achieved.rotation^T and li, as 3x3
\* matrices indexed [row][column]
RotationOf(P) == [i \in 0..2 |-> [j \in 0..2 |-> P[i * 4 + j]]]
TranslationOf(P) == [i \in 0..2 |-> P[i * 4 + 3]]
Transpose3(M) == [i \in 0..2 |-> [j \in 0..2 |-> M[j][i]]]
Mul3(A, B) ==
    [i \in 0..2 |-> [j \in 0..2 |-> A[i][0] * B[0][j] + A[i][1] * B[1][j] + A[i][2] * B[2][j]]]
MulVec3(A, v) == [i \in 0..2 |-> A[i][0] * v[0] + A[i][1] * v[1] + A[i][2] * v[2]]
Trace3(M) == M[0][0] + M[1][1] + M[2][2]
Dot3(a, b) == a[0] * b[0] + a[1] * b[1] + a[2] * b[2]

ErrR == Mul3(RotationOf(Tep), Transpose3(RotationOf(Te)))
ErrLi == [k \in 0..2 |->
            CASE k = 0 -> ErrR[2][1] - ErrR[1][2]
              [] k = 1 -> ErrR[0][2] - ErrR[2][0]
              [] k = 2 -> ErrR[1][0] - ErrR[0][1]]

\* C9: rows 0-2 are target.translation - achieved.translation; rows 3-5 are
\* zero when ||li|| < 1e-6 and trace(R) > 0, (pi/2)(diag(R) + 1) when
\* ||li|| < 1e-6 and trace(R) <= 0, else atan2(||li||, trace(R) - 1) li / ||li||.
C9_PoseErrorThreeCases ==
    AngleAxisDone =>
        LET sq == Dot3(ErrLi, ErrLi)
            tr == Trace3(ErrR)
        IN  /\ \A k \in 0..2 : e[k] = Num(TranslationOf(Tep)[k] - TranslationOf(Te)[k])
            /\ (sq = 0 /\ tr > 0) => \A k \in 0..2 : e[3 + k] = Num(0)
            /\ (sq = 0 /\ tr <= 0) => \A k \in 0..2 : e[3 + k] = PiTwelfths(6 * (ErrR[k][k] + 1))
            /\ sq # 0 => \A k \in 0..2 :
                    e[3 + k] = DivSqrt(PiTwelfths(atan2(sq, tr - 1) * ErrLi[k]), sq)

C9_Witness ==
    /\ AngleAxisDone
    /\ Dot3(ErrLi, ErrLi) = 0 /\ Trace3(ErrR) <= 0
    /\ e[0] # Num(0)
    /\ \E k \in 3..5 : e[k] = PiTwelfths(12)

\* the rotation angle of R in units of pi/12: cos(angle) = (trace(R) - 1) / 2
RotationAngle(R) ==
    CASE Trace3(R) = 3 -> 0
      [] Trace3(R) = 2 -> 4
      [] Trace3(R) = 1 -> 6
      [] Trace3(R) = 0 -> 8
      [] Trace3(R) = -1 -> 12

\* 12 times the squared length of e[3..5], in units of (pi/12)^2
RotErrSqLen12 ==
    LET sq(x) == (12 * x.num * x.num) \div x.rad
    IN  sq(e[3]) + sq(e[4]) + sq(e[5])

RotErrDir == [k \in 0..2 |-> e[3 + k].num]

\* C10: rows 3-5 of poseError have the rotation angle of
\* target.rotation . achieved.rotation^T as magnitude and its axis as
\* direction, 180 degree rotations about any axis included.
C10_RotErrorIsAngleAxis ==
    AngleAxisDone =>
        LET a == RotationAngle(ErrR)
        IN  /\ RotErrSqLen12 = 12 * a * a
            /\ a # 0 => MulVec3(ErrR, RotErrDir) = RotErrDir
            /\ (a # 0 /\ a # 12) => Dot3(ErrLi, RotErrDir) > 0

----------------------------------------------------------------------------
(* Inverse kinematics: _ETS_IK in fknm.c and in methods.cpp *)

\* the iteration budget tested by the while loop
IK_MaxIter == 500

\* PyMem_RawCalloc(6, sizeof(npy_float64))
Calloc6 == [k \in 0..5 |-> Num(0)]

IKChains ==
    {<<>>, <<Joint(2, FALSE, 0)>>, <<Joint(2, FALSE, 0), Joint(3, FALSE, 1)>>,
     <<Static(PoseA), Joint(1, TRUE, 1)>>}

InitIK ==
    /\ pc = "IK"
    /\ ets \in IKChains
    /\ n = 2
    /\ q \in Qs2
    /\ q_shape = <<2>>
    /\ Tep \in {_eye4, PoseA, PoseB}
    /\ base = NULL /\ tool = NULL /\ include_base = 0
    /\ Te = NULL /\ e = NULL /\ J = NULL /\ H = NULL
    /\ iter = 0 /\ arrived = 0
    /\ ret = NoRet
    /\ links = <<>> /\ calls = <<>> /\ heap = <<>>

\* fknm.c 1284-1332: the buffers and counters before the loop
fknm_ETS_IK_enter ==
    /\ pc = "IK"
    /\ Te' = Calloc16
    /\ e' = Calloc6
    /\ arrived' = 0
    /\ iter' = 0
    /\ pc' = "fknm_IK_while"
    /\ UNCHANGED <<ets, n, q, q_shape, base, tool, include_base, Tep, J, H, ret, links, calls, heap>>

\* fknm.c 1334-1363: the loop test and one pass of the body, or the return.
\* The body assigns Te, e and the local E, and neither arrived nor iter.
fknm_ETS_IK_while ==
    /\ pc = "fknm_IK_while"
    /\ IF arrived = 0 /\ iter < IK_MaxIter
       THEN /\ Te' = fknm_ETS_fkine(ets, q, NULL, NULL)
            /\ e' = _angle_axis(Te', Tep)
            /\ UNCHANGED <<pc, ret>>
       ELSE /\ pc' = "done"
            /\ ret' = [op |-> "_ETS_IK", val |-> NULL]
            /\ UNCHANGED <<Te, e>>
    /\ UNCHANGED <<ets, n, q, q_shape, base, tool, include_base, Tep, J, H, iter, arrived, links, calls, heap>>

\* methods.cpp 17-65
methods_ETS_IK_enter ==
    /\ pc = "IK"
    /\ Te' = Calloc16
    /\ e' = Calloc6
    /\ arrived' = 0
    /\ iter' = 0
    /\ pc' = "methods_IK_while"
    /\ UNCHANGED <<ets, n, q, q_shape, base, tool, include_base, Tep, J, H, ret, links, calls, heap>>

\* methods.cpp 67-96: the body only calls _angle_axis on the calloc'ed Te
methods_ETS_IK_while ==
    /\ pc = "methods_IK_while"
    /\ IF arrived = 0 /\ iter < IK_MaxIter
       THEN /\ e' = _angle_axis(Te, Tep)
            /\ UNCHANGED <<pc, ret>>
       ELSE /\ pc' = "done"
            /\ ret' = [op |-> "_ETS_IK", val |-> NULL]
            /\ UNCHANGED e
    /\ UNCHANGED <<ets, n, q, q_shape, base, tool, include_base, Tep, Te, J, H, iter, arrived, links, calls, heap>>

NextIK ==
    \/ fknm_ETS_IK_enter
    \/ fknm_ETS_IK_while
    \/ methods_ETS_IK_enter
    \/ methods_ETS_IK_while

SpecIK == InitIK /\ [][NextIK]_vars

\* a call that has been entered keeps running: the loop is not preempted
FairSpecIK == SpecIK /\ WF_vars(NextIK)

\* C4: the inverse-kinematics iteration terminates for every chain, start
\* configuration and target pose.
C4_IKTerminates == <>(pc = "done")

----------------------------------------------------------------------------
(* Manipulator Hessian: _ETS_hessian (fknm.c 1365-1390, methods.cpp 98-123) *)

\* a buffer with its history: H the values, W how often each entry was assigned
Store(st, idx, v) ==
    [H |-> [st.H EXCEPT ![idx] = v], W |-> [st.W EXCEPT ![idx] = @ + 1]]

\* mutant of _cross: the three components are taken from adjacent entries
_cross_unit_stride(A, a, B, b, st, r, len) ==
    LET s1 == Store(st, r, A[a + 1] * B[b + 2] - A[a + 2] * B[b + 1])
        s2 == Store(s1, r + 1 * len, A[a + 2] * B[b] - A[a] * B[b + 2])
    IN  Store(s2, r + 2 * len, A[a] * B[b + 1] - A[a + 1] * B[b])

\* _cross(a, b, ret, n) with a = A + a, b = B + b, ret = st.H + r
_cross(A, a, B, b, st, r, len) ==
    LET s1 == Store(st, r, A[a + 1 * len] * B[b + 2 * len] - A[a + 2 * len] * B[b + 1 * len])
        s2 == Store(s1, r + 1 * len, A[a + 2 * len] * B[b] - A[a] * B[b + 2 * len])
    IN  Store(s2, r + 2 * len, A[a] * B[b + 1 * len] - A[a + 1 * len] * B[b])

\* mutant of hessian_mirror: the angular block is copied like the linear one
hessian_mirror_copy_all(st, len, a, b, i, j) ==
    LET s1 == Store(st, b + j, st.H[a + i])
        s2 == Store(s1, b + j + len, s1.H[a + i + len])
        s3 == Store(s2, b + j + 2 * len, s2.H[a + i + 2 * len])
        s4 == Store(s3, b + j + 3 * len, s3.H[a + i + 3 * len])
        s5 == Store(s4, b + j + 4 * len, s4.H[a + i + 4 * len])
    IN  Store(s5, b + j + 5 * len, s5.H[a + i + 5 * len])

\* fknm.c 1381-1386: the six assignments made when i != j
hessian_mirror(st, len, a, b, i, j) ==
    LET s1 == Store(st, b + j, st.H[a + i])
        s2 == Store(s1, b + j + len, s1.H[a + i + len])
        s3 == Store(s2, b + j + 2 * len, s2.H[a + i + 2 * len])
        s4 == Store(s3, b + j + 3 * len, 0)
        s5 == Store(s4, b + j + 4 * len, 0)
    IN  Store(s5, b + j + 5 * len, 0)

\* mutant of hessian_body: the mirror step is left out
hessian_body_unmirrored(Jb, st, len, j, i) ==
    LET a == j * 6 * len
        n3 == 3 * len
        s1 == _cross(Jb, j + n3, Jb, i, st, a + i, len)
    IN  _cross(Jb, j + n3, Jb, i + n3, s1, a + i + n3, len)

\* fknm.c 1375-1387: the body of the inner loop
hessian_body(Jb, st, len, j, i) ==
    LET a == j * 6 * len
        b == i * 6 * len
        n3 == 3 * len
        s1 == _cross(Jb, j + n3, Jb, i, st, a + i, len)
        s2 == _cross(Jb, j + n3, Jb, i + n3, s1, a + i + n3, len)
    IN  IF i # j THEN hessian_mirror(s2, len, a, b, i, j) ELSE s2

\* fknm.c 1370-1389: for (j = 0; j < n; j++) for (i = j; i < n; i++)
RECURSIVE hessian_loop(_, _, _, _, _)
hessian_loop(Jb, st, len, j, i) ==
    IF j >= len THEN st
    ELSE IF i >= len THEN hessian_loop(Jb, st, len, j + 1, j + 1)
    ELSE hessian_loop(Jb, hessian_body(Jb, st, len, j, i), len, j, i + 1)

\* _ETS_hessian(n, J, H) on an output buffer holding H0
_ETS_hessian(len, Jb, H0) ==
    hessian_loop(Jb, [H |-> H0, W |-> [x \in DOMAIN H0 |-> 0]], len, 0, 0)

\* columns a Jacobian is assembled from: (linear; angular)
JColumns ==
    {<<1, 0, 0, 0, 0, 1>>, <<0, 2, -1, 1, 0, 0>>, <<1, 1, 1, 0, 1, 0>>,
     <<2, -1, 0, 0, 0, 0>>, <<0, 0, 1, 1, 1, 0>>, <<-1, 2, 3, 2, -1, 1>>,
     <<3, 1, -2, -1, 2, 2>>, <<0, 0, 0, 0, 0, 0>>}

\* the 6 x len row-major buffer with the given columns
JFromColumns(cols, len) == [x \in 0..(6 * len - 1) |-> cols[x % len][(x \div len) + 1]]

\* PyArray_EMPTY: the output buffer starts with whatever the memory holds
EmptyBuffers(size) == {[x \in 0..(size - 1) |-> 7], [x \in 0..(size - 1) |-> x - 3]}

InitHessian ==
    /\ pc = "_ETS_hessian"
    /\ n \in 1..MaxJoints
    /\ \E cols \in [0..(n - 1) -> JColumns] : J = JFromColumns(cols, n)
    /\ H \in EmptyBuffers(n * 6 * n)
    /\ ets = <<>> /\ q = <<>> /\ q_shape = <<0>>
    /\ base = NULL /\ tool = NULL /\ include_base = 0
    /\ Tep = NULL /\ Te = NULL /\ e = NULL
    /\ iter = 0 /\ arrived = 0
    /\ ret = NoRet
    /\ links = <<>> /\ calls = <<>> /\ heap = <<>>

Call_ETS_hessian ==
    /\ pc = "_ETS_hessian"
    /\ LET st == _ETS_hessian(n, J, H)
       IN  /\ H' = st.H
           /\ ret' = [op |-> "_ETS_hessian", val |-> st.W]
    /\ pc' = "done"
    /\ UNCHANGED <<ets, n, q, q_shape, base, tool, include_base, Tep, Te, e, J, iter, arrived, links, calls, heap>>

NextHessian == Call_ETS_hessian

SpecHessian == InitHessian /\ [][NextHessian]_vars

HessianDone == pc = "done" /\ ret.op = "_ETS_hessian"

\* H[j][r, i] and J[r, i] of the row-major buffers
HAt(j, r, i) == H[j * 6 * n + r * n + i]
JAt(r, i) == J[r * n + i]

\* C6: for all i # j the linear rows are symmetric under joint exchange,
\* H[j][0:3,i] = H[i][0:3,j], and whenever the angular rows H[j][3:6,i] are
\* non-zero the swapped angular rows H[i][3:6,j] are all zero.
C6_HessianSymmetry ==
    HessianDone =>
        \A i, j \in 0..(n - 1) :
            i # j =>
                /\ \A r \in 0..2 : HAt(j, r, i) = HAt(i, r, j)
                /\ (\E r \in 3..5 : HAt(j, r, i) # 0) => \A r \in 3..5 : HAt(i, r, j) = 0

C6_Witness ==
    /\ HessianDone /\ n >= 2
    /\ HAt(0, 0, 1) # 0 /\ HAt(1, 0, 0) = HAt(0, 0, 1)
    /\ HAt(0, 3, 1) # 0 /\ HAt(1, 3, 0) = 0

\* the cross product of two 3-vectors given by their components
Cross3(a, b) ==
    <<a[2] * b[3] - a[3] * b[2], a[3] * b[1] - a[1] * b[3], a[1] * b[2] - a[2] * b[1]>>

JLinear(c) == <<JAt(0, c), JAt(1, c), JAt(2, c)>>
JAngular(c) == <<JAt(3, c), JAt(4, c), JAt(5, c)>>

\* C7: for every pair of columns j <= i, H[j][0:3,i] = cross(J[3:6,j], J[0:3,i])
\* and H[j][3:6,i] = cross(J[3:6,j], J[3:6,i]), read and written at stride n.
C7_HessianBlocks ==
    HessianDone =>
        \A j \in 0..(n - 1) : \A i \in j..(n - 1) :
            /\ <<HAt(j, 0, i), HAt(j, 1, i), HAt(j, 2, i)>> = Cross3(JAngular(j), JLinear(i))
            /\ <<HAt(j, 3, i), HAt(j, 4, i), HAt(j, 5, i)>> = Cross3(JAngular(j), JAngular(i))

C7_Witness ==
    /\ HessianDone /\ n >= 2
    /\ Cross3(JAngular(0), JLinear(1)) # <<0, 0, 0>>
    /\ Cross3(JAngular(0), JAngular(1)) # <<0, 0, 0>>
    /\ <<HAt(0, 3, 1), HAt(0, 4, 1), HAt(0, 5, 1)>> = Cross3(JAngular(0), JAngular(1))
    /\ Cross3(JAngular(1), JLinear(1)) # <<0, 0, 0>>

----------------------------------------------------------------------------
(* Manipulator Jacobians: _ETS_jacob0 and _ETS_jacobe *)

\* the 6 x n output buffer with its history: J the values, W how often each
\* entry was assigned, oob the offsets written outside the buffer
JStore(st, idx, v) ==
    IF idx \in DOMAIN st.J
    THEN [st EXCEPT !.J[idx] = v, !.W[idx] = @ + 1]
    ELSE [st EXCEPT !.oob = @ \cup {idx}]

JFresh(J0) == [J |-> J0, W |-> [x \in DOMAIN J0 |-> 0], oob |-> {}]

\* J[0 * n + j] .. J[5 * n + j] = c[1] .. c[6]
JStoreColumn(st, len, j, c) ==
    LET s0 == JStore(st, 0 * len + j, c[1])
        s1 == JStore(s0, 1 * len + j, c[2])
        s2 == JStore(s1, 2 * len + j, c[3])
        s3 == JStore(s2, 3 * len + j, c[4])
        s4 == JStore(s3, 4 * len + j, c[5])
    IN  JStore(s4, 5 * len + j, c[6])

\* mutant of fknm_jacob0_column: the angular part of a rotational joint is
\* read from a row of U instead of a column
fknm_jacob0_column_rows(U, temp, axis) ==
    CASE axis = 0 ->
            <<U[0 * 4 + 2] * temp[1 * 4 + 3] - U[0 * 4 + 1] * temp[2 * 4 + 3],
              U[1 * 4 + 2] * temp[1 * 4 + 3] - U[1 * 4 + 1] * temp[2 * 4 + 3],
              U[2 * 4 + 2] * temp[1 * 4 + 3] - U[2 * 4 + 1] * temp[2 * 4 + 3],
              U[0 * 4 + 0], U[0 * 4 + 1], U[0 * 4 + 2]>>
      [] axis = 1 ->
            <<U[0 * 4 + 0] * temp[2 * 4 + 3] - U[0 * 4 + 2] * temp[0 * 4 + 3],
              U[1 * 4 + 0] * temp[2 * 4 + 3] - U[1 * 4 + 2] * temp[0 * 4 + 3],
              U[2 * 4 + 0] * temp[2 * 4 + 3] - U[2 * 4 + 2] * temp[0 * 4 + 3],
              U[1 * 4 + 0], U[1 * 4 + 1], U[1 * 4 + 2]>>
      [] axis = 2 ->
            <<U[0 * 4 + 1] * temp[0 * 4 + 3] - U[0 * 4 + 0] * temp[1 * 4 + 3],
              U[1 * 4 + 1] * temp[0 * 4 + 3] - U[1 * 4 + 0] * temp[1 * 4 + 3],
              U[2 * 4 + 1] * temp[0 * 4 + 3] - U[2 * 4 + 0] * temp[1 * 4 + 3],
              U[2 * 4 + 0], U[2 * 4 + 1], U[2 * 4 + 2]>>
      [] axis = 3 -> <<U[0 * 4 + 0], U[1 * 4 + 0], U[2 * 4 + 0], 0, 0, 0>>
      [] axis = 4 -> <<U[0 * 4 + 1], U[1 * 4 + 1], U[2 * 4 + 1], 0, 0, 0>>
      [] axis = 5 -> <<U[0 * 4 + 2], U[1 * 4 + 2], U[2 * 4 + 2], 0, 0, 0>>

\* fknm.c 1432-1485: the column of a joint in the base frame, by axis
fknm_jacob0_column(U, temp, axis) ==
    CASE axis = 0 ->
            <<U[0 * 4 + 2] * temp[1 * 4 + 3] - U[0 * 4 + 1] * temp[2 * 4 + 3],
              U[1 * 4 + 2] * temp[1 * 4 + 3] - U[1 * 4 + 1] * temp[2 * 4 + 3],
              U[2 * 4 + 2] * temp[1 * 4 + 3] - U[2 * 4 + 1] * temp[2 * 4 + 3],
              U[0 * 4 + 0], U[1 * 4 + 0], U[2 * 4 + 0]>>
      [] axis = 1 ->
            <<U[0 * 4 + 0] * temp[2 * 4 + 3] - U[0 * 4 + 2] * temp[0 * 4 + 3],
              U[1 * 4 + 0] * temp[2 * 4 + 3] - U[1 * 4 + 2] * temp[0 * 4 + 3],
              U[2 * 4 + 0] * temp[2 * 4 + 3] - U[2 * 4 + 2] * temp[0 * 4 + 3],
              U[0 * 4 + 1], U[1 * 4 + 1], U[2 * 4 + 1]>>
      [] axis = 2 ->
            <<U[0 * 4 + 1] * temp[0 * 4 + 3] - U[0 * 4 + 0] * temp[1 * 4 + 3],
              U[1 * 4 + 1] * temp[0 * 4 + 3] - U[1 * 4 + 0] * temp[1 * 4 + 3],
              U[2 * 4 + 1] * temp[0 * 4 + 3] - U[2 * 4 + 0] * temp[1 * 4 + 3],
              U[0 * 4 + 2], U[1 * 4 + 2], U[2 * 4 + 2]>>
      [] axis = 3 -> <<U[0 * 4 + 0], U[1 * 4 + 0], U[2 * 4 + 0], 0, 0, 0>>
      [] axis = 4 -> <<U[0 * 4 + 1], U[1 * 4 + 1], U[2 * 4 + 1], 0, 0, 0>>
      [] axis = 5 -> <<U[0 * 4 + 2], U[1 * 4 + 2], U[2 * 4 + 2], 0, 0, 0>>

\* fknm.c 1412-1494: the loop of _ETS_jacob0 over the m elements
RECURSIVE fknm_jacob0_loop(_, _, _, _, _, _, _, _)
fknm_jacob0_loop(chain, len, qp, t, T, i, U, st) ==
    IF i >= Len(chain)
    THEN st.out
    ELSE LET et == chain[i + 1]
             r == _ET_T(et, qp[et.jindex])
             U1 == copy(mult(U, r))
         IN  IF et.isjoint
             THEN LET U2 == IF i = Len(chain) - 1 /\ t # NULL
                            THEN copy(mult(U1, t))
                            ELSE U1
                      invU == _inv(U2)
                      temp == mult(invU, T)
                      out == JStoreColumn(st.out, len, st.j,
                                          fknm_jacob0_column(U2, temp, et.axis))
                  IN  fknm_jacob0_loop(chain, len, qp, t, T, i + 1, U2,
                                       [j |-> st.j + 1, out |-> out])
             ELSE fknm_jacob0_loop(chain, len, qp, t, T, i + 1, U1, st)

\* fknm.c _ETS_jacob0(ets, n, q, tool, J) on an output buffer holding J0
fknm_ETS_jacob0(chain, len, qp, t, J0) ==
    LET T == fknm_ETS_fkine(chain, qp, NULL, t)
    IN  fknm_jacob0_loop(chain, len, qp, t, T, 0, _eye4, [j |-> 0, out |-> JFresh(J0)])

\* fknm.c 1538-1591: the column of a joint in the tool frame, by axis
fknm_jacobe_column(U, axis) ==
    CASE axis = 0 ->
            <<U[2 * 4 + 0] * U[1 * 4 + 3] - U[1 * 4 + 0] * U[2 * 4 + 3],
              U[2 * 4 + 1] * U[1 * 4 + 3] - U[1 * 4 + 1] * U[2 * 4 + 3],
              U[2 * 4 + 2] * U[1 * 4 + 3] - U[1 * 4 + 2] * U[2 * 4 + 3],
              U[0 * 4 + 0], U[0 * 4 + 1], U[0 * 4 + 2]>>
      [] axis = 1 ->
            <<U[0 * 4 + 0] * U[2 * 4 + 3] - U[2 * 4 + 0] * U[0 * 4 + 3],
              U[0 * 4 + 1] * U[2 * 4 + 3] - U[2 * 4 + 1] * U[0 * 4 + 3],
              U[0 * 4 + 2] * U[2 * 4 + 3] - U[2 * 4 + 2] * U[0 * 4 + 3],
              U[1 * 4 + 0], U[1 * 4 + 1], U[1 * 4 + 2]>>
      [] axis = 2 ->
            <<U[1 * 4 + 0] * U[0 * 4 + 3] - U[0 * 4 + 0] * U[1 * 4 + 3],
              U[1 * 4 + 1] * U[0 * 4 + 3] - U[0 * 4 + 1] * U[1 * 4 + 3],
              U[1 * 4 + 2] * U[0 * 4 + 3] - U[0 * 4 + 2] * U[1 * 4 + 3],
              U[2 * 4 + 0], U[2 * 4 + 1], U[2 * 4 + 2]>>
      [] axis = 3 -> <<U[0 * 4 + 0], U[0 * 4 + 1], U[0 * 4 + 2], 0, 0, 0>>
      [] axis = 4 -> <<U[1 * 4 + 0], U[1 * 4 + 1], U[1 * 4 + 2], 0, 0, 0>>
      [] axis = 5 -> <<U[2 * 4 + 0], U[2 * 4 + 1], U[2 * 4 + 2], 0, 0, 0>>

\* mutant of Reverse: the list is left in its order
Reverse_none(chain) == [i \in 1..Len(chain) |-> chain[i]]

\* PyList_Reverse
Reverse(chain) == [i \in 1..Len(chain) |-> chain[Len(chain) + 1 - i]]

\* fknm.c 1531-1604: the loop of _ETS_jacobe over the reversed list
RECURSIVE fknm_jacobe_loop(_, _, _, _, _, _)
fknm_jacobe_loop(rev, len, qp, i, U, st) ==
    IF i >= Len(rev)
    THEN st.out
    ELSE LET et == rev[i + 1]
             r == _ET_T(et, qp[et.jindex])
             U1 == copy(mult(r, U))
         IN  IF et.isjoint
             THEN fknm_jacobe_loop(rev, len, qp, i + 1, U1,
                    [j |-> st.j - 1,
                     out |-> JStoreColumn(st.out, len, st.j, fknm_jacobe_column(U, et.axis))])
             ELSE fknm_jacobe_loop(rev, len, qp, i + 1, U1, st)

\* mutant of fknm_ETS_jacobe: the column counter starts at n
fknm_ETS_jacobe_from_n(chain, len, qp, t, J0) ==
    LET U == IF t # NULL THEN copy(mult(t, _eye4)) ELSE _eye4
    IN  fknm_jacobe_loop(Reverse(chain), len, qp, 0, U, [j |-> len, out |-> JFresh(J0)])

\* fknm.c _ETS_jacobe(ets, n, q, tool, J) on an output buffer holding J0
fknm_ETS_jacobe(chain, len, qp, t, J0) ==
    LET T == fknm_ETS_fkine(chain, qp, NULL, t)
        U == IF t # NULL THEN copy(mult(t, _eye4)) ELSE _eye4
    IN  fknm_jacobe_loop(Reverse(chain), len, qp, 0, U, [j |-> len - 1, out |-> JFresh(J0)])

\* methods.cpp: U(Eigen::seq(0, 2), c), U(r, Eigen::seq(0, 2)) and the
\* vector expressions built from them
UCol(U, c) == <<U[0 * 4 + c], U[1 * 4 + c], U[2 * 4 + c]>>
URow(U, r) == <<U[r * 4 + 0], U[r * 4 + 1], U[r * 4 + 2]>>
Scaled(v, k) == <<v[1] * k, v[2] * k, v[3] * k>>
Minus(a, b) == <<a[1] - b[1], a[2] - b[2], a[3] - b[3]>>
At(M, r, c) == M[r * 4 + c]
Vector3dZero == <<0, 0, 0>>

\* methods.cpp 169-240: eJ(seq(0, 2), j) and eJ(seq(3, 5), j), by axis
methods_jacob0_column(U, temp, axis) ==
    CASE axis = 0 ->
            Minus(Scaled(UCol(U, 2), At(temp, 1, 3)), Scaled(UCol(U, 1), At(temp, 2, 3)))
                \o UCol(U, 0)
      [] axis = 1 ->
            Minus(Scaled(UCol(U, 0), At(temp, 2, 3)), Scaled(UCol(U, 2), At(temp, 0, 3)))
                \o UCol(U, 1)
      [] axis = 2 ->
            Minus(Scaled(UCol(U, 1), At(temp, 0, 3)), Scaled(UCol(U, 0), At(temp, 1, 3)))
                \o UCol(U, 2)
      [] axis = 3 -> UCol(U, 0) \o Vector3dZero
      [] axis = 4 -> UCol(U, 1) \o Vector3dZero
      [] axis = 5 -> UCol(U, 2) \o Vector3dZero

\* methods.cpp 147-249: the loop of _ETS_jacob0 over ets->m elements
RECURSIVE methods_jacob0_loop(_, _, _, _, _, _, _, _)
methods_jacob0_loop(chain, len, qp, t, eT, i, U, st) ==
    IF i >= Len(chain)
    THEN st.out
    ELSE LET et == chain[i + 1]
             r == methods_ET_T(et, qp[et.jindex])
             U1 == mult(U, r)
         IN  IF et.isjoint
             THEN LET U2 == IF i = Len(chain) - 1 /\ t # NULL THEN mult(U1, t) ELSE U1
                      invU == _inv(U2)
                      temp == mult(invU, eT)
                      out == JStoreColumn(st.out, len, st.j,
                                          methods_jacob0_column(U2, temp, et.axis))
                  IN  methods_jacob0_loop(chain, len, qp, t, eT, i + 1, U2,
                                          [j |-> st.j + 1, out |-> out])
             ELSE methods_jacob0_loop(chain, len, qp, t, eT, i + 1, U1, st)

\* methods.cpp _ETS_jacob0(ets, n, q, tool, eJ) on an output buffer holding J0
methods_ETS_jacob0(chain, len, qp, t, J0) ==
    LET eT == methods_ETS_fkine(chain, qp, NULL, t)
    IN  methods_jacob0_loop(chain, len, qp, t, eT, 0, _eye4, [j |-> 0, out |-> JFresh(J0)])

\* methods.cpp 294-365: the column of a joint in the tool frame, by axis
methods_jacobe_column(U, axis) ==
    CASE axis = 0 ->
            Minus(Scaled(URow(U, 2), At(U, 1, 3)), Scaled(URow(U, 1), At(U, 2, 3)))
                \o URow(U, 0)
      [] axis = 1 ->
            Minus(Scaled(URow(U, 0), At(U, 2, 3)), Scaled(URow(U, 2), At(U, 0, 3)))
                \o URow(U, 1)
      [] axis = 2 ->
            Minus(Scaled(URow(U, 1), At(U, 0, 3)), Scaled(URow(U, 0), At(U, 1, 3)))
                \o URow(U, 2)
      [] axis = 3 -> URow(U, 0) \o Vector3dZero
      [] axis = 4 -> URow(U, 1) \o Vector3dZero
      [] axis = 5 -> URow(U, 2) \o Vector3dZero

\* methods.cpp 286-384: for (i = ets->m - 1; i >= 0; i--)
RECURSIVE methods_jacobe_loop(_, _, _, _, _, _)
methods_jacobe_loop(chain, len, qp, i, U, st) ==
    IF i < 0
    THEN st.out
    ELSE LET et == chain[i + 1]
             r == methods_ET_T(et, qp[et.jindex])
             U1 == mult(r, U)
         IN  IF et.isjoint
             THEN methods_jacobe_loop(chain, len, qp, i - 1, U1,
                    [j |-> st.j - 1,
                     out |-> JStoreColumn(st.out, len, st.j, methods_jacobe_column(U, et.axis))])
             ELSE methods_jacobe_loop(chain, len, qp, i - 1, U1, st)

\* methods.cpp _ETS_jacobe(ets, n, q, tool, eJ) on an output buffer holding J0
methods_ETS_jacobe(chain, len, qp, t, J0) ==
    LET U == IF t # NULL THEN mult(t, _eye4) ELSE _eye4
    IN  methods_jacobe_loop(chain, len, qp, Len(chain) - 1, U, [j |-> len - 1, out |-> JFresh(J0)])

\* elementary transforms of the chains handed to the Jacobians: every axis,
\* both joint indices, flipped joints, a static element
ETsJac ==
    {Joint(a, FALSE, a % 2) : a \in 0..5}
        \cup {Joint(2, TRUE, 1), Joint(3, TRUE, 0), Static(PoseA)}

NumJoints(chain) == Cardinality({i \in 1..Len(chain) : chain[i].isjoint})
NumIndices(chain) == Cardinality({chain[i].jindex : i \in {k \in 1..Len(chain) : chain[k].isjoint}})

QsJac == [0..1 -> {-1, 0, 1}]

InitJac ==
    /\ pc = "jacobian"
    /\ ets \in SeqsUpTo(ETsJac, MaxLen)
    /\ n \in {NumJoints(ets), NumIndices(ets)}
    /\ q \in QsJac
    /\ q_shape = <<2>>
    /\ tool \in {NULL, PoseB}
    /\ J = [x \in 0..(6 * n - 1) |-> 7]
    /\ base = NULL /\ include_base = 0
    /\ Tep = NULL /\ Te = NULL /\ e = NULL /\ H = NULL
    /\ iter = 0 /\ arrived = 0
    /\ ret = NoRet
    /\ links = <<>> /\ calls = <<>> /\ heap = <<>>

JacReturn(name, out) ==
    /\ ret' = [op |-> name, val |-> out]
    /\ J' = out.J
    /\ pc' = "done"
    /\ UNCHANGED <<ets, n, q, q_shape, base, tool, include_base, Tep, Te, e, H, iter, arrived, links, calls, heap>>

Call_fknm_ETS_jacob0 ==
    pc = "jacobian" /\ JacReturn("fknm_ETS_jacob0", fknm_ETS_jacob0(ets, n, q, tool, J))

Call_fknm_ETS_jacobe ==
    pc = "jacobian" /\ JacReturn("fknm_ETS_jacobe", fknm_ETS_jacobe(ets, n, q, tool, J))

Call_methods_ETS_jacob0 ==
    pc = "jacobian" /\ JacReturn("methods_ETS_jacob0", methods_ETS_jacob0(ets, n, q, tool, J))

Call_methods_ETS_jacobe ==
    pc = "jacobian" /\ JacReturn("methods_ETS_jacobe", methods_ETS_jacobe(ets, n, q, tool, J))

NextJac ==
    \/ Call_fknm_ETS_jacob0
    \/ Call_fknm_ETS_jacobe
    \/ Call_methods_ETS_jacob0
    \/ Call_methods_ETS_jacobe

SpecJac == InitJac /\ [][NextJac]_vars

\* the output buffer the Jacobian call of this state started from
JEmpty == [x \in 0..(6 * n - 1) |-> 7]

\* column c of a 6 x n buffer: its linear and its angular rows
LinCol(Jb, c) == [r \in 0..2 |-> Jb[r * n + c]]
AngCol(Jb, c) == [r \in 0..2 |-> Jb[(3 + r) * n + c]]

\* [p]x v
CrossVec3(p, v) ==
    [k \in 0..2 |->
        CASE k = 0 -> p[1] * v[2] - p[2] * v[1]
          [] k = 1 -> p[2] * v[0] - p[0] * v[2]
          [] k = 2 -> p[0] * v[1] - p[1] * v[0]]
Add3(a, b) == [k \in 0..2 |-> a[k] + b[k]]

\* the end pose and the tool-frame Jacobian of this state's chain, as
\* methods.cpp computes them
EndPose == methods_ETS_fkine(ets, q, NULL, tool)
ToolJacobian == methods_ETS_jacobe(ets, n, q, tool, JEmpty).J

BaseJacobianDone ==
    /\ pc = "done" /\ ret.op = "methods_ETS_jacob0"
    /\ tool = NULL /\ NumJoints(ets) = n

FknmBaseJacobianDone ==
    /\ pc = "done" /\ ret.op = "fknm_ETS_jacob0"
    /\ tool = NULL /\ NumJoints(ets) = n
FknmToolJacobian == fknm_ETS_jacobe(ets, n, q, tool, JEmpty).J

\* the axis of the joint that fills column c
IsJointET(et) == et.isjoint
ColumnAxis(c) == SelectSeq(ets, IsJointET)[c + 1].axis

----------------------------------------------------------------------------
(* Rotation to quaternion: fknm.c _r2q *)

\* sqrt(s) / 4.0 for the sums a rotation of the grid produces
SqrtOver4(s) ==
    CASE s = 0 -> Num(0)
      [] s = 4 -> [num |-> 1, rad |-> 4, unit |-> "1"]
      [] s = 8 -> [num |-> 1, rad |-> 2, unit |-> "1"]
      [] s = 16 -> Num(1)

\* q[i] = -q[i]
Negated(x) == IF x.num = 0 THEN x ELSE [x EXCEPT !.num = -x.num]

pow2(x) == x * x

\* mutant of _r2q: no sign is transferred from the off-diagonal differences
r2q_unsigned(r) ==
    LET t12p == pow2(r[0 * 4 + 1] + r[1 * 4 + 0])
        t13p == pow2(r[0 * 4 + 2] + r[2 * 4 + 0])
        t23p == pow2(r[1 * 4 + 2] + r[2 * 4 + 1])
        t12m == pow2(r[0 * 4 + 1] - r[1 * 4 + 0])
        t13m == pow2(r[0 * 4 + 2] - r[2 * 4 + 0])
        t23m == pow2(r[1 * 4 + 2] - r[2 * 4 + 1])
        d1 == pow2(r[0 * 4 + 0] + r[1 * 4 + 1] + r[2 * 4 + 2] + 1)
        d2 == pow2(r[0 * 4 + 0] - r[1 * 4 + 1] - r[2 * 4 + 2] + 1)
        d3 == pow2(-r[0 * 4 + 0] + r[1 * 4 + 1] - r[2 * 4 + 2] + 1)
        d4 == pow2(-r[0 * 4 + 0] - r[1 * 4 + 1] + r[2 * 4 + 2] + 1)
    IN  [k \in 0..3 |->
            CASE k = 3 -> SqrtOver4(d1 + t23m + t13m + t12m)
              [] k = 0 -> SqrtOver4(t23m + d2 + t12p + t13p)
              [] k = 1 -> SqrtOver4(t13m + t12p + d3 + t23p)
              [] k = 2 -> SqrtOver4(t12m + t13p + t23p + d4)]

\* fknm.c _r2q(r, q): r a 4x4 buffer, q = (x, y, z, w) at q[0..3]
_r2q(r) ==
    LET t12p == pow2(r[0 * 4 + 1] + r[1 * 4 + 0])
        t13p == pow2(r[0 * 4 + 2] + r[2 * 4 + 0])
        t23p == pow2(r[1 * 4 + 2] + r[2 * 4 + 1])
        t12m == pow2(r[0 * 4 + 1] - r[1 * 4 + 0])
        t13m == pow2(r[0 * 4 + 2] - r[2 * 4 + 0])
        t23m == pow2(r[1 * 4 + 2] - r[2 * 4 + 1])
        d1 == pow2(r[0 * 4 + 0] + r[1 * 4 + 1] + r[2 * 4 + 2] + 1)
        d2 == pow2(r[0 * 4 + 0] - r[1 * 4 + 1] - r[2 * 4 + 2] + 1)
        d3 == pow2(-r[0 * 4 + 0] + r[1 * 4 + 1] - r[2 * 4 + 2] + 1)
        d4 == pow2(-r[0 * 4 + 0] - r[1 * 4 + 1] + r[2 * 4 + 2] + 1)
        q3 == SqrtOver4(d1 + t23m + t13m + t12m)
        q0 == SqrtOver4(t23m + d2 + t12p + t13p)
        q1 == SqrtOver4(t13m + t12p + d3 + t23p)
        q2 == SqrtOver4(t12m + t13p + t23p + d4)
    IN  [k \in 0..3 |->
            CASE k = 0 -> IF r[2 * 4 + 1] < r[1 * 4 + 2] THEN Negated(q0) ELSE q0
              [] k = 1 -> IF r[0 * 4 + 2] < r[2 * 4 + 0] THEN Negated(q1) ELSE q1
              [] k = 2 -> IF r[1 * 4 + 0] < r[0 * 4 + 1] THEN Negated(q2) ELSE q2
              [] k = 3 -> q3]

\* poses handed to _r2q: every rotation of the grid at three positions
R2QPoses ==
    {mult(t, r) : t \in Translations \cup {mult(tx(-1), tz(2))}, r \in Rotations}

InitR2Q ==
    /\ pc = "_r2q"
    /\ Te \in R2QPoses
    /\ ets = <<>> /\ n = 0 /\ q = <<>> /\ q_shape = <<0>>
    /\ base = NULL /\ tool = NULL /\ include_base = 0
    /\ Tep = NULL /\ e = NULL /\ J = NULL /\ H = NULL
    /\ iter = 0 /\ arrived = 0
    /\ ret = NoRet
    /\ links = <<>> /\ calls = <<>> /\ heap = <<>>

\* _r2q(r, q) with r = Te
Call_r2q ==
    /\ pc = "_r2q"
    /\ ret' = [op |-> "_r2q", val |-> _r2q(Te)]
    /\ pc' = "done"
    /\ UNCHANGED <<ets, n, q, q_shape, base, tool, include_base, Tep, Te, e, J, H, iter, arrived, links, calls, heap>>

NextR2Q == Call_r2q

SpecR2Q == InitR2Q /\ [][NextR2Q]_vars

\* 2 a b in halves, for quaternion components a and b; exact where the
\* product of the radicands is a square
TwiceProductHalves(a, b) ==
    IF a.num = 0 \/ b.num = 0 THEN 0
    ELSE (4 * a.num * b.num) \div ISqrt(a.rad * b.rad)

ProductExact(a, b) ==
    a.num = 0 \/ b.num = 0
        \/ /\ ISqrt(a.rad * b.rad) * ISqrt(a.rad * b.rad) = a.rad * b.rad
           /\ (4 * a.num * b.num) % ISqrt(a.rad * b.rad) = 0

\* the rotation matrix of the quaternion (x, y, z, w) = qt[0..3], in halves
QuaternionMatrixHalves(qt) ==
    LET x == qt[0]  y == qt[1]  z == qt[2]  w == qt[3]
        P(a, b) == TwiceProductHalves(a, b)
    IN  <<2 - P(y, y) - P(z, z), P(x, y) - P(z, w), P(x, z) + P(y, w),
          P(x, y) + P(z, w), 2 - P(x, x) - P(z, z), P(y, z) - P(x, w),
          P(x, z) - P(y, w), P(y, z) + P(x, w), 2 - P(x, x) - P(y, y)>>

RotationHalves(r) ==
    <<2 * r[0], 2 * r[1], 2 * r[2], 2 * r[4], 2 * r[5], 2 * r[6],
      2 * r[8], 2 * r[9], 2 * r[10]>>

\* x^2 + y^2 + z^2 + w^2 in sixteenths
NormSqSixteenths(qt) ==
    LET sq(a) == IF a.num = 0 THEN 0 ELSE (16 * a.num * a.num) \div a.rad
    IN  sq(qt[0]) + sq(qt[1]) + sq(qt[2]) + sq(qt[3])

QuaternionRoundTrips ==
    /\ \A a \in 0..3, b \in 0..3 : ProductExact(ret.val[a], ret.val[b])
    /\ QuaternionMatrixHalves(ret.val) = RotationHalves(Te)
    /\ NormSqSixteenths(ret.val) = 16

\* identity, quarter turns either way and half turns about X, Y and Z
PrincipalTurns == {rx(k) : k \in 0..3} \cup {ry(k) : k \in 0..3} \cup {rz(k) : k \in 0..3}

RotationPart(P) == [x \in 0..15 |-> IF x % 4 = 3 \/ x \div 4 = 3 THEN _eye4[x] ELSE P[x]]

\* C11: for the identity and the 90 and 180 degree rotations about X, Y and
\* Z, the matrix rebuilt from the quaternion _r2q returns is the rotation
\* given, and the quaternion has unit norm.
C11_QuaternionRoundTrip ==
    (pc = "done" /\ ret.op = "_r2q" /\ RotationPart(Te) \in PrincipalTurns)
        => QuaternionRoundTrips

C11_Witness ==
    /\ pc = "done" /\ ret.op = "_r2q"
    /\ RotationPart(Te) = rx(3)
    /\ Te[3] # 0
    /\ ret.val[0].num = -1 /\ ret.val[0].rad = 2

----------------------------------------------------------------------------
(* Link tree propagation: fknm.c link_init, A, fkine_all *)

MaxLinks == 3

\* the Link struct as link_init fills it.  parent is the position of the
\* parent's capsule in links, 0 for NULL; the shape arrays are indexed from 0
link_init(isjoint, isflip, jointtype, jindex, n_shapes, A_, fk, shape_base, shape_wT, shape_sT, shape_sq, parent) ==
    [isjoint |-> isjoint, isflip |-> isflip, axis |-> jointtype, jindex |-> jindex,
     n_shapes |-> n_shapes, A |-> A_, fk |-> fk,
     shape_base |-> shape_base, shape_wT |-> shape_wT,
     shape_sT |-> shape_sT, shape_sq |-> shape_sq, parent |-> parent]

\* mutant of A: the variable part of a joint link comes first
A_variable_first(link, eta) ==
    IF ~link.isjoint
    THEN copy(link.A)
    ELSE mult(ET_op(link.axis, IF link.isflip THEN -eta ELSE eta), link.A)

\* fknm.c A(link, ret, eta)
A(link, eta) ==
    IF ~link.isjoint
    THEN copy(link.A)
    ELSE mult(link.A, ET_op(link.axis, IF link.isflip THEN -eta ELSE eta))

\* mutant of fkine_all_fk: every link is composed against base
fkine_all_fk_base_only(ls, link, r, b) == mult(b, r)

\* fknm.c 869-878: link->fk from the parent's fk, or from base for a root
fkine_all_fk(ls, link, r, b) ==
    IF link.parent # 0
    THEN mult(ls[link.parent].fk, r)
    ELSE mult(b, r)

\* mutant of fkine_all_shapes: only the first shape is refreshed
fkine_all_shapes_first(link) ==
    [link EXCEPT
        !.shape_wT = [i \in DOMAIN @ |-> IF i = 0 THEN copy(link.fk) ELSE @[i]],
        !.shape_sT = [i \in DOMAIN @ |->
                        IF i = 0 THEN mult(link.fk, link.shape_base[i]) ELSE @[i]],
        !.shape_sq = [i \in DOMAIN @ |->
                        IF i = 0 THEN _r2q(mult(link.fk, link.shape_base[i])) ELSE @[i]]]

\* fknm.c 880-886: the dependent shapes of a link whose fk has been set
fkine_all_shapes(link) ==
    [link EXCEPT
        !.shape_wT = [i \in DOMAIN @ |->
                        IF i < link.n_shapes THEN copy(link.fk) ELSE @[i]],
        !.shape_sT = [i \in DOMAIN @ |->
                        IF i < link.n_shapes THEN mult(link.fk, link.shape_base[i]) ELSE @[i]],
        !.shape_sq = [i \in DOMAIN @ |->
                        IF i < link.n_shapes
                        THEN _r2q(mult(link.fk, link.shape_base[i])) ELSE @[i]]]

\* fknm.c 858-887: for (int i = 0; i < m; i++) over the list of links
RECURSIVE fkine_all_loop(_, _, _, _, _)
fkine_all_loop(ls, m, qp, b, i) ==
    IF i >= m
    THEN ls
    ELSE LET link == ls[i + 1]
             r == A(link, qp[link.jindex])
             moved == [link EXCEPT !.fk = fkine_all_fk(ls, link, r, b)]
         IN  fkine_all_loop([ls EXCEPT ![i + 1] = fkine_all_shapes(moved)], m, qp, b, i + 1)

\* mutant of fkine_all: the list is walked a second time in the same pass
fkine_all_revisit(m, ls, qp, b) == fkine_all_loop(fkine_all_loop(ls, m, qp, b, 0), m, qp, b, 0)

\* fknm.c fkine_all(m, links, q, base): the links after the pass
fkine_all(m, ls, qp, b) == fkine_all_loop(ls, m, qp, b, 0)

\* what the caches hold before the first pass: a pose and a quaternion left
\* by earlier use
StalePose == mult(ty(3), ry(1))
StaleQuaternion == [k \in 0..3 |-> Num(0)]

\* the kinds of link a tree is built from: joint or not, static part, shapes
LinkKinds ==
    {[isjoint |-> TRUE, isflip |-> FALSE, axis |-> 2, jindex |-> 0, A |-> PoseA,
      shapes |-> <<PoseB>>],
     [isjoint |-> TRUE, isflip |-> TRUE, axis |-> 3, jindex |-> 1, A |-> _eye4,
      shapes |-> <<>>],
     [isjoint |-> FALSE, isflip |-> FALSE, axis |-> 0, jindex |-> 0, A |-> PoseB,
      shapes |-> <<_eye4, PoseA>>]}

LinkOfKind(k, parent) ==
    LET ns == Len(k.shapes)
    IN  link_init(k.isjoint, k.isflip, k.axis, k.jindex, ns, k.A, StalePose,
                  [i \in 0..(ns - 1) |-> k.shapes[i + 1]],
                  [i \in 0..(ns - 1) |-> StalePose],
                  [i \in 0..(ns - 1) |-> StalePose],
                  [i \in 0..(ns - 1) |-> StaleQuaternion],
                  parent)

\* the number of links between a link and its root; more than the list holds
\* when the parent references run in a circle
RECURSIVE Depth(_, _, _)
Depth(ls, i, fuel) ==
    IF ls[i].parent = 0 THEN 0
    ELSE IF fuel = 0 THEN Len(ls) + 1
    ELSE 1 + Depth(ls, ls[i].parent, fuel - 1)

IsTree(ls) == \A i \in 1..Len(ls) : ls[i].parent # i /\ Depth(ls, i, Len(ls)) <= Len(ls)

\* lists of up to MaxLinks links forming trees, in any order
LinkTrees ==
    {ls \in UNION {[1..m -> {LinkOfKind(k, p) : k \in LinkKinds, p \in 0..m}] :
                        m \in 1..MaxLinks} : IsTree(ls)}

\* the configurations of the passes
QsLinks == {[k \in 0..1 |-> 1], [k \in 0..1 |-> IF k = 0 THEN -1 ELSE 2]}

InitLinks ==
    /\ pc = "fkine_all"
    /\ links \in LinkTrees
    /\ base = PoseB
    /\ q = [k \in 0..1 |-> 0]
    /\ q_shape = <<2>>
    /\ ets = <<>> /\ n = 0 /\ tool = NULL /\ include_base = 0
    /\ Tep = NULL /\ Te = NULL /\ e = NULL /\ J = NULL /\ H = NULL
    /\ iter = 0 /\ arrived = 0
    /\ ret = NoRet
    /\ calls = <<>> /\ heap = <<>>

\* fkine_all(m, links, q, base) with m the length of the list; a first pass
\* and a second one at another q
Call_fkine_all ==
    /\ pc \in {"fkine_all", "propagated"}
    /\ \E qp \in QsLinks :
        /\ q' = qp
        /\ links' = fkine_all(Len(links), links, qp, base)
    /\ ret' = [op |-> "fkine_all", val |-> NULL]
    /\ pc' = IF pc = "fkine_all" THEN "propagated" ELSE "done"
    /\ UNCHANGED <<ets, n, q_shape, base, tool, include_base, Tep, Te, e, J, H, iter, arrived,
                   calls, heap>>

NextLinks == Call_fkine_all

SpecLinks == InitLinks /\ [][NextLinks]_vars

Propagated == pc \in {"propagated", "done"} /\ ret.op = "fkine_all"

ParentsFirst(ls) == \A i \in 1..Len(ls) : ls[i].parent < i

\* base . local(root) . ... . local(link) along the parent path of link i
RECURSIVE PathPose(_, _, _, _)
PathPose(ls, i, qp, b) ==
    LET local == A(ls[i], qp[ls[i].jindex])
    IN  IF ls[i].parent = 0
        THEN mult(b, local)
        ELSE mult(PathPose(ls, ls[i].parent, qp, b), local)

\* C12: after a pass over links listed parents-first, every link's fk is
\* base . local(root) . ... . local(link) along its parent path at the q of
\* that pass, whatever the earlier passes left.
C12_FkIsPathProduct ==
    (Propagated /\ ParentsFirst(links))
        => \A i \in 1..Len(links) : links[i].fk = PathPose(links, i, q, base)

C12_Witness ==
    /\ pc = "done" /\ ret.op = "fkine_all" /\ ParentsFirst(links)
    /\ Len(links) = 3 /\ links[2].parent = 1 /\ links[3].parent = 2
    /\ links[1].isjoint /\ links[2].isjoint
    /\ q[0] = 1 /\ q[1] = 1
    /\ links[3].fk # links[2].fk /\ links[2].fk # links[1].fk

\* the base offset link_init gave shape k of a link
BaseOffsetAtInit(link, k) ==
    LET kind == CHOOSE c \in LinkKinds : c.isjoint = link.isjoint /\ c.axis = link.axis
    IN  kind.shapes[k + 1]

\* C13: after every pass each shape of each visited link has shape_wT = the
\* link's fk, shape_sT = fk . baseOffset, shape_sq = the quaternion of
\* shape_sT, and its baseOffset is as it was.
C13_ShapeCaches ==
    Propagated =>
        \A i \in 1..Len(links) :
            /\ DOMAIN links[i].shape_base = 0..(links[i].n_shapes - 1)
            /\ \A k \in 0..(links[i].n_shapes - 1) :
                /\ links[i].shape_wT[k] = links[i].fk
                /\ links[i].shape_sT[k] = mult(links[i].fk, links[i].shape_base[k])
                /\ links[i].shape_sq[k] = _r2q(links[i].shape_sT[k])
                /\ links[i].shape_base[k] = BaseOffsetAtInit(links[i], k)

C13_Witness ==
    /\ pc = "done" /\ ret.op = "fkine_all"
    /\ \E i \in 1..Len(links) :
        /\ links[i].n_shapes = 2 /\ links[i].parent # 0
        /\ links[i].shape_sT[1] # links[i].shape_wT[1]
        /\ links[i].shape_sT[1] # StalePose
        /\ links[i].shape_sq[1] # StaleQuaternion

----------------------------------------------------------------------------
(* Evaluating one elementary transform: ET_T, _ET_T *)

\* fknm.c 810-829: eta from py_eta, 0 for None
ET_T_eta(py_eta) == IF py_eta # NULL THEN py_eta[1] ELSE 0

\* the elements evaluated alone: every axis flipped and not, and static ones
ETsAlone ==
    {Joint(a, f, 0) : a \in 0..5, f \in BOOLEAN}
        \cup {Static(PoseA), Static(PoseB), Static(_eye4)}

\* the joint values, as the one-element buffer of a Python float or NULL for
\* None: a number of quarter turns resp. a length
EtaValues == {NULL} \cup {<<k>> : k \in -2..3}

InitET ==
    /\ pc = "ET_T"
    /\ ets \in {<<et>> : et \in ETsAlone}
    /\ q \in EtaValues
    /\ q_shape = <<1>>
    /\ n = 0 /\ base = NULL /\ tool = NULL /\ include_base = 0
    /\ Tep = NULL /\ Te = NULL /\ e = NULL /\ J = NULL /\ H = NULL
    /\ iter = 0 /\ arrived = 0
    /\ ret = NoRet
    /\ links = <<>> /\ calls = <<>> /\ heap = <<>>

\* fknm.c ET_T(et, eta)
Call_ET_T ==
    /\ pc = "ET_T"
    /\ ret' = [op |-> "ET_T", val |-> _ET_T(ets[1], ET_T_eta(q))]
    /\ pc' = "done"
    /\ UNCHANGED <<ets, n, q, q_shape, base, tool, include_base, Tep, Te, e, J, H, iter, arrived, links, calls, heap>>

\* methods.cpp _ET_T(et, ret, eta), which takes a number
Call_methods_ET_T ==
    /\ pc = "ET_T"
    /\ q # NULL
    /\ ret' = [op |-> "methods_ET_T", val |-> methods_ET_T(ets[1], q[1])]
    /\ pc' = "done"
    /\ UNCHANGED <<ets, n, q, q_shape, base, tool, include_base, Tep, Te, e, J, H, iter, arrived, links, calls, heap>>

NextET ==
    \/ Call_ET_T
    \/ Call_methods_ET_T

SpecET == InitET /\ [][NextET]_vars

\* the sign of the permutation (i, j, k) of (0, 1, 2), 0 if it is none
Epsilon(i, j, k) ==
    IF {i, j, k} # {0, 1, 2} THEN 0
    ELSE IF (j - i) % 3 = 1 THEN 1 ELSE -1

\* the generator of an axis code at theta: the rotation about the unit
\* vector of axis 0..2 by theta quarter turns (Rodrigues' formula), or the
\* translation by theta along the unit vector of axis 3..5
Generator(axis, theta) ==
    [x \in 0..15 |->
        LET i == x \div 4
            j == x % 4
            d == IF i = j THEN 1 ELSE 0
        IN  IF i = 3 \/ j = 3
            THEN IF axis >= 3 /\ j = 3 /\ i = axis - 3 THEN theta ELSE d
            ELSE IF axis >= 3 THEN d
            ELSE cos(theta) * d - sin(theta) * Epsilon(i, j, axis)
                    + (1 - cos(theta)) * (IF i = axis /\ j = axis THEN 1 ELSE 0)]

\* the joint value the finished call evaluated at
EtaGiven == IF q # NULL THEN q[1] ELSE 0

\* the routine of the finished call on another element and value
SameRoutine(et, eta) ==
    IF ret.op = "ET_T" THEN _ET_T(et, eta) ELSE methods_ET_T(et, eta)

\* C14: a Static element returns its fixed pose whatever joint value is
\* passed; a Joint element returns the generator of its axis at the joint
\* value, negated first when flip is set, so that a flipped joint at q equals
\* the unflipped joint at -q.
C14_EvaluateElement ==
    (pc = "done" /\ ret.op \in {"ET_T", "methods_ET_T"}) =>
        LET et == ets[1]
        IN  IF ~et.isjoint
            THEN ret.val = et.T
            ELSE /\ ret.val = Generator(et.axis, IF et.isflip THEN -EtaGiven ELSE EtaGiven)
                 /\ et.isflip => ret.val = SameRoutine([et EXCEPT !.isflip = FALSE], -EtaGiven)

C14_Witness ==
    /\ pc = "done" /\ ret.op = "ET_T"
    /\ ets[1].isjoint /\ ets[1].isflip /\ ets[1].axis = 1
    /\ q = <<1>>
    /\ ret.val = ry(-1) /\ ret.val # ry(1)

----------------------------------------------------------------------------
(* The Jacobian column of a joint *)

\* E_1 ... E_p, the pose up to and including element p of the chain
PrefixPose(p) == ChainProduct(SubSeq(ets, 1, p), q, NULL, NULL)

\* the velocity of the end point per unit rate of the joint at position p, in
\* the base frame: (w x (t_end - t_joint); w) about the joint's axis w for a
\* rotational joint, (w; 0) along it for a translational one
SensitivityBase(p) ==
    LET U == PrefixPose(p)
        T == ChainProduct(ets, q, NULL, NULL)
        a == ets[p].axis
        w == [k \in 0..2 |-> U[k * 4 + (a % 3)]]
        d == [k \in 0..2 |-> T[k * 4 + 3] - U[k * 4 + 3]]
        zero == [k \in 0..2 |-> 0]
    IN  IF a <= 2 THEN [lin |-> CrossVec3(w, d), ang |-> w]
        ELSE [lin |-> w, ang |-> zero]

\* the same in the frame of the end pose
SensitivityTool(p) ==
    LET Rt == Transpose3(RotationOf(ChainProduct(ets, q, NULL, NULL)))
        b == SensitivityBase(p)
    IN  [lin |-> MulVec3(Rt, b.lin), ang |-> MulVec3(Rt, b.ang)]

JointPlaces == {p \in 1..Len(ets) : ets[p].isjoint}

\* the Joint elements carry each index 0..n-1 exactly once; no tool, no flip
IndicesOnce ==
    /\ tool = NULL
    /\ NumJoints(ets) = n
    /\ {ets[p].jindex : p \in JointPlaces} = 0..(n - 1)
    /\ \A p \in JointPlaces : ~ets[p].isflip

\* the indices also increase along the chain
IndicesInChainOrder ==
    \A p1 \in JointPlaces, p2 \in JointPlaces : p1 < p2 => ets[p1].jindex < ets[p2].jindex

\* column c of the returned Jacobian is the sensitivity to the joint at p;
\* of fknm.c's _ETS_jacob0 only the entries that do not use its end pose
ColumnHolds(c, p) ==
    CASE ret.op = "methods_ETS_jacob0" ->
            /\ LinCol(J, c) = SensitivityBase(p).lin
            /\ AngCol(J, c) = SensitivityBase(p).ang
      [] ret.op = "fknm_ETS_jacob0" ->
            /\ ets[p].axis >= 3 => LinCol(J, c) = SensitivityBase(p).lin
            /\ AngCol(J, c) = SensitivityBase(p).ang
      [] OTHER ->
            /\ LinCol(J, c) = SensitivityTool(p).lin
            /\ AngCol(J, c) = SensitivityTool(p).ang

JacobianDone ==
    pc = "done" /\ ret.op \in {"fknm_ETS_jacob0", "fknm_ETS_jacobe",
                               "methods_ETS_jacob0", "methods_ETS_jacobe"}

\* C15: in both Jacobian variants the column of a Joint element is the column
\* of its jointIndex, so that column c holds the sensitivity to q[c], for
\* every chain whose joints carry each index 0..n-1 once, in any order.
C15_ColumnIsJointIndex ==
    (JacobianDone /\ IndicesOnce)
        => \A p \in JointPlaces : ColumnHolds(ets[p].jindex, p)

\* where it holds: the indices increase along the chain
ColumnIsJointIndexInOrder ==
    (JacobianDone /\ IndicesOnce /\ IndicesInChainOrder)
        => \A p \in JointPlaces : ColumnHolds(ets[p].jindex, p)

----------------------------------------------------------------------------
(* Calls on one shared chain list *)

\* the objects of the Python list: capsules with a name and a pointer
PyCapsule_New(pointer, name) == [name |-> name, pointer |-> pointer]

\* a capsule that PyCapsule_GetPointer(.., "ET") does not decode
NotAnET == PyCapsule_New(Static(_eye4), "Link")

Decodable(list) == \A k \in 1..Len(list) : list[k].name = "ET"

\* the ET structures behind a list of ET capsules
Pointers(list) == [k \in 1..Len(list) |-> list[k].pointer]

\* fknm.c 1616-1660: _ETS_fkine on the list; an element that does not decode
\* makes it return with ret as the last _ET_T left it
RECURSIVE fknm_fkine_list_loop(_, _, _, _, _, _, _)
fknm_fkine_list_loop(list, qp, t, i, r, temp, current) ==
    IF i >= Len(list)
    THEN IF t # NULL THEN mult(current, t) ELSE copy(current)
    ELSE IF list[i + 1].name # "ET"
         THEN r
         ELSE LET et == list[i + 1].pointer
              IN  fknm_fkine_list_loop(list, qp, t, i + 1, _ET_T(et, qp[et.jindex]),
                                       temp, copy(temp))

\* the two callers
Callers == {"a", "b"}

CallOps == {"ETS_jacobe", "ETS_jacob0", "ETS_fkine"}

\* contents a freshly allocated (PyArray_EMPTY) 4x4 output can have
FreshArrays == {Calloc16, [x \in 0..15 |-> 7]}

ETsCalls ==
    {PyCapsule_New(Joint(2, FALSE, 0), "ET"), PyCapsule_New(Joint(3, FALSE, 1), "ET"),
     PyCapsule_New(Static(PoseA), "ET"), NotAnET}

QsCalls == {[k \in 0..1 |-> 1], [k \in 0..1 |-> IF k = 0 THEN -1 ELSE 2]}

\* a call that has not started: given is the list as the caller holds it
\* before any call, entry the list as the call finds it
NotStarted(op, list, len) ==
    [op |-> op, pc |-> "idle", i |-> 0, j |-> 0, U |-> _eye4, T |-> Calloc16,
     out |-> JFresh([x \in 0..(6 * len - 1) |-> 7]),
     given |-> list, entry |-> <<>>, early |-> FALSE]

InitCalls ==
    /\ pc = "calls"
    /\ ets \in SeqsUpTo(ETsCalls, MaxLen)
    /\ n = Cardinality({k \in 1..Len(ets) : ets[k].name = "ET" /\ ets[k].pointer.isjoint})
    /\ q \in QsCalls
    /\ q_shape = <<2>>
    /\ tool = NULL
    /\ calls \in {c \in [Callers -> {NotStarted(op, ets, n) : op \in CallOps \cup {"none"}}] :
                    c["a"].op # "none"}
    /\ J = NULL
    /\ base = NULL /\ include_base = 0
    /\ Tep = NULL /\ Te = NULL /\ e = NULL /\ H = NULL
    /\ iter = 0 /\ arrived = 0
    /\ ret = NoRet
    /\ links = <<>> /\ heap = <<>>

CallsFrame == UNCHANGED <<pc, n, q, q_shape, base, tool, include_base, Tep, Te, e, J, H, iter, arrived, ret, links, heap>>

\* fknm.c 1508-1529: _ETS_jacobe up to its loop; T is computed and not used
Begin_ETS_jacobe(t) ==
    /\ calls[t].op = "ETS_jacobe" /\ calls[t].pc = "idle"
    /\ ets' = Reverse(ets)
    /\ calls' = [calls EXCEPT ![t].pc = "loop", ![t].entry = ets,
                              ![t].i = 0, ![t].j = n - 1,
                              ![t].U = IF tool # NULL THEN copy(mult(tool, _eye4)) ELSE _eye4]
    /\ CallsFrame

\* fknm.c 1531-1604: one iteration of the loop of _ETS_jacobe
Step_ETS_jacobe(t) ==
    /\ calls[t].op = "ETS_jacobe" /\ calls[t].pc = "loop"
    /\ calls[t].i < Len(ets)
    /\ LET c == calls[t]
           o == ets[c.i + 1]
           et == o.pointer
           U1 == copy(mult(_ET_T(et, q[et.jindex]), c.U))
       IN  calls' = IF o.name # "ET"
                    THEN [calls EXCEPT ![t].pc = "done", ![t].early = TRUE]
                    ELSE IF et.isjoint
                    THEN [calls EXCEPT ![t].i = c.i + 1, ![t].U = U1, ![t].j = c.j - 1,
                            ![t].out = JStoreColumn(c.out, n, c.j, fknm_jacobe_column(c.U, et.axis))]
                    ELSE [calls EXCEPT ![t].i = c.i + 1, ![t].U = U1]
    /\ UNCHANGED ets
    /\ CallsFrame

\* fknm.c 1606-1613: after the loop
End_ETS_jacobe(t) ==
    /\ calls[t].op = "ETS_jacobe" /\ calls[t].pc = "loop"
    /\ calls[t].i >= Len(ets)
    /\ ets' = Reverse(ets)
    /\ calls' = [calls EXCEPT ![t].pc = "done"]
    /\ CallsFrame

\* fknm.c 1395-1411: _ETS_jacob0 up to its loop
Begin_ETS_jacob0(t) ==
    /\ calls[t].op = "ETS_jacob0" /\ calls[t].pc = "idle"
    /\ calls' = [calls EXCEPT ![t].pc = "loop", ![t].entry = ets,
                              ![t].i = 0, ![t].j = 0, ![t].U = _eye4,
                              ![t].T = fknm_fkine_list_loop(ets, q, tool, 0, Calloc16,
                                                            Calloc16, _eye4)]
    /\ UNCHANGED ets
    /\ CallsFrame

\* fknm.c 1412-1494: one iteration of the loop of _ETS_jacob0
Step_ETS_jacob0(t) ==
    /\ calls[t].op = "ETS_jacob0" /\ calls[t].pc = "loop"
    /\ calls[t].i < Len(ets)
    /\ LET c == calls[t]
           o == ets[c.i + 1]
           et == o.pointer
           U1 == copy(mult(c.U, _ET_T(et, q[et.jindex])))
           U2 == IF c.i = Len(ets) - 1 /\ tool # NULL THEN copy(mult(U1, tool)) ELSE U1
           temp == mult(_inv(U2), c.T)
       IN  calls' = IF o.name # "ET"
                    THEN [calls EXCEPT ![t].pc = "done", ![t].early = TRUE]
                    ELSE IF et.isjoint
                    THEN [calls EXCEPT ![t].i = c.i + 1, ![t].U = U2, ![t].j = c.j + 1,
                            ![t].out = JStoreColumn(c.out, n, c.j,
                                                    fknm_jacob0_column(U2, temp, et.axis))]
                    ELSE [calls EXCEPT ![t].i = c.i + 1, ![t].U = U1]
    /\ UNCHANGED ets
    /\ CallsFrame

\* fknm.c 1496-1502: after the loop
End_ETS_jacob0(t) ==
    /\ calls[t].op = "ETS_jacob0" /\ calls[t].pc = "loop"
    /\ calls[t].i >= Len(ets)
    /\ calls' = [calls EXCEPT ![t].pc = "done"]
    /\ UNCHANGED ets
    /\ CallsFrame

\* fknm.c 1618-1634: _ETS_fkine up to its loop; U is current, T is ret
Begin_ETS_fkine(t) ==
    /\ calls[t].op = "ETS_fkine" /\ calls[t].pc = "idle"
    /\ \E fresh \in FreshArrays :
          calls' = [calls EXCEPT ![t].pc = "loop", ![t].entry = ets, ![t].i = 0,
                                 ![t].U = IF base # NULL THEN copy(base) ELSE _eye4,
                                 ![t].T = fresh]
    /\ UNCHANGED ets
    /\ CallsFrame

\* fknm.c 1636-1646: one iteration of the loop of _ETS_fkine
Step_ETS_fkine(t) ==
    /\ calls[t].op = "ETS_fkine" /\ calls[t].pc = "loop"
    /\ calls[t].i < Len(ets)
    /\ LET c == calls[t]
           o == ets[c.i + 1]
           et == o.pointer
       IN  calls' = IF o.name # "ET"
                    THEN [calls EXCEPT ![t].pc = "done", ![t].early = TRUE]
                    ELSE [calls EXCEPT ![t].i = c.i + 1,
                                       ![t].T = _ET_T(et, q[et.jindex]),
                                       ![t].U = copy(Calloc16)]
    /\ UNCHANGED ets
    /\ CallsFrame

\* fknm.c 1648-1660: after the loop
End_ETS_fkine(t) ==
    /\ calls[t].op = "ETS_fkine" /\ calls[t].pc = "loop"
    /\ calls[t].i >= Len(ets)
    /\ calls' = [calls EXCEPT ![t].pc = "done",
                              ![t].T = IF tool # NULL THEN mult(calls[t].U, tool)
                                       ELSE copy(calls[t].U)]
    /\ UNCHANGED ets
    /\ CallsFrame

NextCalls ==
    \E t \in Callers :
        \/ Begin_ETS_jacobe(t) \/ Step_ETS_jacobe(t) \/ End_ETS_jacobe(t)
        \/ Begin_ETS_jacob0(t) \/ Step_ETS_jacob0(t) \/ End_ETS_jacob0(t)
        \/ Begin_ETS_fkine(t) \/ Step_ETS_fkine(t) \/ End_ETS_fkine(t)

SpecCalls == InitCalls /\ [][NextCalls]_vars

\* what a call returns: the Jacobian array, or the pose array
Returned(t) == IF calls[t].op = "ETS_fkine" THEN calls[t].T ELSE calls[t].out.J

\* what the call returns when it runs on the list alone
Alone(op, list) ==
    CASE op = "ETS_jacobe" ->
            fknm_ETS_jacobe(Pointers(list), n, q, tool, [x \in 0..(6 * n - 1) |-> 7]).J
      [] op = "ETS_jacob0" ->
            fknm_ETS_jacob0(Pointers(list), n, q, tool, [x \in 0..(6 * n - 1) |-> 7]).J
      [] op = "ETS_fkine" -> fknm_ETS_fkine(Pointers(list), q, base, tool)

Started == {t \in Callers : calls[t].op # "none"}

AllReturned == \A t \in Started : calls[t].pc = "done"

OneCallAsAlone ==
    (pc = "calls" /\ AllReturned /\ Cardinality(Started) = 1
        /\ \A t \in Started : Decodable(calls[t].given))
        => \A t \in Started : Returned(t) = Alone(calls[t].op, calls[t].given)

\* C17: when ETS_jacobe returns, on every return path including the early
\* return taken when an element cannot be decoded, the chain's element order
\* is the order it had on entry.
C17_OrderRestored ==
    \A t \in Callers :
        (pc = "calls" /\ Started = {t} /\ calls[t].op = "ETS_jacobe" /\ calls[t].pc = "done")
            => ets = calls[t].entry

\* the return after the loop restores the order
OrderRestoredAfterLoop ==
    \A t \in Callers :
        (pc = "calls" /\ Started = {t} /\ calls[t].op = "ETS_jacobe" /\ calls[t].pc = "done"
            /\ ~calls[t].early)
            => ets = calls[t].entry

----------------------------------------------------------------------------
(* ET_update on a handle that a chain holds *)

\* fknm.c 690-748: ET_update(py_et, isjoint, isflip, jindex, jointtype, T, qlim)
\* writes the fields of the structure py_et points to, and returns a capsule
\* of that same pointer; jointtype is in 0..5, so that op follows axis
ET_update(h, py_et, isjoint, isflip, jindex, jointtype, T) ==
    [h EXCEPT ![py_et] = [isjoint |-> isjoint, isflip |-> isflip, jindex |-> jindex,
                          axis |-> jointtype, T |-> T]]

\* the handles (capsule pointers) of the elements built by ET_init
Handles == {"et1", "et2"}

ETsUpdate == {Joint(2, FALSE, 0), Joint(3, FALSE, 1), Joint(2, TRUE, 0), Static(PoseA)}

\* the structures a chain of handles points to
Deref(h, chain) == [k \in 1..Len(chain) |-> h[chain[k]]]

InitUpdate ==
    /\ pc = "built"
    /\ heap \in [Handles -> ETsUpdate]
    /\ ets \in SeqsUpTo(Handles, MaxLen) \ {<<>>}
    /\ n = MaxJoints
    /\ q \in QsCalls
    /\ q_shape = <<2>>
    /\ tool = NULL
    /\ J = [x \in 0..(6 * n - 1) |-> 7]
    /\ calls = <<>>
    /\ base = NULL /\ include_base = 0
    /\ Tep = NULL /\ Te = NULL /\ e = NULL /\ H = NULL
    /\ iter = 0 /\ arrived = 0
    /\ ret = NoRet
    /\ links = <<>>

\* ETS_jacobe(n, ets, q, tool) on the chain of handles, into a new array
Call_ETS_jacobe ==
    /\ pc \in {"built", "updated"}
    /\ LET out == fknm_ETS_jacobe(Deref(heap, ets), n, q, tool, [x \in 0..(6 * n - 1) |-> 7])
       IN  /\ J' = out.J
           /\ ret' = [op |-> "ETS_jacobe", val |-> out]
           /\ calls' = Append(calls, [op |-> "ETS_jacobe", val |-> out.J])
    /\ pc' = IF pc = "built" THEN "evaluated" ELSE "done"
    /\ UNCHANGED <<ets, n, q, q_shape, base, tool, include_base, Tep, Te, e, H, iter, arrived, links, heap>>

\* ET_update(py_et, ...) on one of the handles, with the arguments of an element
Call_ET_update ==
    /\ pc = "evaluated"
    /\ \E py_et \in Handles, new \in ETsUpdate :
          /\ heap' = ET_update(heap, py_et, new.isjoint, new.isflip, new.jindex, new.axis, new.T)
          /\ ret' = [op |-> "ET_update", val |-> py_et]
          /\ calls' = Append(calls, [op |-> "ET_update", val |-> py_et])
    /\ pc' = "updated"
    /\ UNCHANGED <<ets, n, q, q_shape, base, tool, include_base, Tep, Te, e, J, H, iter, arrived, links>>

NextUpdate == Call_ETS_jacobe \/ Call_ET_update

SpecUpdate == InitUpdate /\ [][NextUpdate]_vars

\* C18: after ET_update, a chain that already holds the old ET handle still
\* evaluates with the old isjoint, flip, jointIndex, axis and transform: its
\* Jacobian after the update is its Jacobian before the update.
C18_OldHandleKeepsOldFields ==
    (pc = "done") => calls[3].val = calls[1].val

\* an update of a handle the chain does not hold leaves its evaluation alone
UpdateOfAnotherHandle ==
    (pc = "done" /\ \A k \in 1..Len(ets) : ets[k] # calls[2].val)
        => calls[3].val = calls[1].val

----------------------------------------------------------------------------
(* The rigid inverse *)

InitInv ==
    /\ pc = "_inv"
    /\ Te \in R2QPoses
    /\ ets = <<>> /\ n = 0 /\ q = <<>> /\ q_shape = <<0>>
    /\ base = NULL /\ tool = NULL /\ include_base = 0
    /\ Tep = NULL /\ e = NULL /\ J = NULL /\ H = NULL
    /\ iter = 0 /\ arrived = 0
    /\ ret = NoRet
    /\ links = <<>> /\ calls = <<>> /\ heap = <<>>

\* _inv(m, inv) on Te, and then on what the call before returned
Call_inv ==
    /\ pc \in {"_inv", "inverted"}
    /\ ret' = [op |-> "_inv", val |-> _inv(IF pc = "_inv" THEN Te ELSE ret.val)]
    /\ pc' = IF pc = "_inv" THEN "inverted" ELSE "done"
    /\ UNCHANGED <<ets, n, q, q_shape, base, tool, include_base, Tep, Te, e, J, H, iter, arrived, links, calls, heap>>

NextInv == Call_inv

SpecInv == InitInv /\ [][NextInv]_vars

\* C19: for a rigid pose M, _inv(M) has the transposed rotation block, the
\* translation -R^T t and the bottom row (0, 0, 0, 1); _inv(M) . M and
\* M . _inv(M) are the identity, and _inv(_inv(M)) is M.
C19_RigidInverse ==
    /\ (pc = "inverted") =>
          /\ RotationOf(ret.val) = Transpose3(RotationOf(Te))
          /\ TranslationOf(ret.val)
                = [i \in 0..2 |-> -MulVec3(Transpose3(RotationOf(Te)), TranslationOf(Te))[i]]
          /\ \A c \in 0..3 : ret.val[12 + c] = IF c = 3 THEN 1 ELSE 0
          /\ mult(ret.val, Te) = _eye4
          /\ mult(Te, ret.val) = _eye4
    /\ (pc = "done") => ret.val = Te

\* both calls made on a pose whose rotation is not its own transpose and
\* whose translation is not zero
C19_Witness ==
    /\ pc = "done"
    /\ RotationOf(Te) # Transpose3(RotationOf(Te))
    /\ TranslationOf(Te) # [i \in 0..2 |-> 0]

----------------------------------------------------------------------------
(* The column formula of the base-frame Jacobian *)

\* the number of Joint elements in front of place p: the column the walk is at
ColumnOfPlace(p) == Cardinality({k \in JointPlaces : k < p})

\* column 3 of D = rigidInverse(U) . T, which is R_U^T (t_T - t_U)
DColumn3(U, T) ==
    MulVec3(Transpose3(RotationOf(U)), [k \in 0..2 |-> T[k * 4 + 3] - U[k * 4 + 3]])

\* the column of the Joint element at place p by the stated formula, with U
\* the product of the elements up to and including p and T the end pose
FormulaColumn(p) ==
    LET U == PrefixPose(p)
        T == ChainProduct(ets, q, NULL, tool)
        D3 == DColumn3(U, T)
        a == ets[p].axis % 3
    IN  IF ets[p].axis <= 2
        THEN [lin |-> [k \in 0..2 |-> U[k * 4 + ((a + 2) % 3)] * D3[(a + 1) % 3]
                                        - U[k * 4 + ((a + 1) % 3)] * D3[(a + 2) % 3]],
              ang |-> [k \in 0..2 |-> U[k * 4 + a]]]
        ELSE [lin |-> [k \in 0..2 |-> U[k * 4 + a]],
              ang |-> [k \in 0..2 |-> 0]]

ColumnsByFormula ==
    \A p \in JointPlaces :
        /\ LinCol(J, ColumnOfPlace(p)) = FormulaColumn(p).lin
        /\ AngCol(J, ColumnOfPlace(p)) = FormulaColumn(p).ang

BaseJacobianReturned == pc = "done" /\ ret.op \in {"fknm_ETS_jacob0", "methods_ETS_jacob0"}

\* C20: in jacobianBase the column of a Joint element with axis index a is
\* computed from U, the product of the elements up to and including it, and
\* D = rigidInverse(U) . T with T the end pose: for a rotation the linear part
\* is U[:,a+2] D[a+1,3] - U[:,a+1] D[a+2,3] (indices mod 3) and the angular
\* part U[:,a]; for a translation the linear part is U[:,a], the angular zero.
C20_BaseColumnFormula ==
    (BaseJacobianReturned /\ NumJoints(ets) = n) => ColumnsByFormula

\* where it holds: methods.cpp, when no tool is folded into a last Joint
BaseColumnFormulaMethods ==
    (pc = "done" /\ ret.op = "methods_ETS_jacob0" /\ NumJoints(ets) = n
        /\ (tool = NULL \/ ets = <<>> \/ ~ets[Len(ets)].isjoint))
        => ColumnsByFormula

\* fknm.c differs in the linear part of rotational joints only
BaseColumnFormulaFknm ==
    (pc = "done" /\ ret.op = "fknm_ETS_jacob0" /\ NumJoints(ets) = n /\ tool = NULL)
        => \A p \in JointPlaces :
              /\ AngCol(J, ColumnOfPlace(p)) = FormulaColumn(p).ang
              /\ ets[p].axis >= 3 => LinCol(J, ColumnOfPlace(p)) = FormulaColumn(p).lin
              /\ ets[p].axis <= 2 => LinCol(J, ColumnOfPlace(p)) = [k \in 0..2 |-> 0]

----------------------------------------------------------------------------
(* The walk of the tool-frame Jacobian *)

\* E_(p+1) ... E_k . tool, the product of the elements strictly after place p
SuffixPose(p) == ChainProduct(SubSeq(ets, p + 1, Len(ets)), q, NULL, tool)

\* the column of a joint by the rows of U: for a rotation about axis a the
\* linear part U[a+2,:] U[a+1,3] - U[a+1,:] U[a+2,3] (indices mod 3) and the
\* angular part U[a,:]; for a translation along a the linear part U[a,:]
RowsColumn(U, axis) ==
    LET a == axis % 3
    IN  IF axis <= 2
        THEN [lin |-> [k \in 0..2 |-> U[((a + 2) % 3) * 4 + k] * U[((a + 1) % 3) * 4 + 3]
                                        - U[((a + 1) % 3) * 4 + k] * U[((a + 2) % 3) * 4 + 3]],
              ang |-> [k \in 0..2 |-> U[a * 4 + k]]]
        ELSE [lin |-> [k \in 0..2 |-> U[a * 4 + k]],
              ang |-> [k \in 0..2 |-> 0]]

\* the column the backward walk is at when it reaches place p
ColumnFromEnd(p) == n - 1 - Cardinality({k \in JointPlaces : k > p})

ToolJacobianReturned == pc = "done" /\ ret.op \in {"fknm_ETS_jacobe", "methods_ETS_jacobe"}

\* C21: in jacobianTool the chain is walked from the last element to the
\* first with U seeded by tool (identity when absent); the column of a Joint
\* element comes from the rows of the U that is the product of the elements
\* strictly after it (times tool), and only then U becomes E . U.
C21_ToolWalk ==
    (ToolJacobianReturned /\ NumJoints(ets) = n)
        => \A p \in JointPlaces :
              /\ LinCol(J, ColumnFromEnd(p)) = RowsColumn(SuffixPose(p), ets[p].axis).lin
              /\ AngCol(J, ColumnFromEnd(p)) = RowsColumn(SuffixPose(p), ets[p].axis).ang

\* a rotational joint in front of another element and a tool: folding the
\* joint in first, or walking forward, gives another column
C21_Witness ==
    /\ ToolJacobianReturned /\ NumJoints(ets) = n
    /\ Len(ets) = 2 /\ tool # NULL
    /\ ets[1].isjoint /\ ets[1].axis <= 2 /\ q[ets[1].jindex] # 0
    /\ SuffixPose(1) # SuffixPose(0)
    /\ SuffixPose(1) # tool
    /\ LinCol(J, ColumnFromEnd(1)) # [k \in 0..2 |-> 0]

----------------------------------------------------------------------------
(* Chains that mix Static and Joint elements *)

ETsMixed ==
    {Joint(2, FALSE, 0), Joint(3, FALSE, 1), Joint(0, TRUE, 1), Static(PoseA)}

\* chains of up to MaxLen + 1 elements, n the number of their joints
InitJacMixed ==
    /\ pc = "jacobian"
    /\ ets \in SeqsUpTo(ETsMixed, MaxLen + 1)
    /\ n = NumJoints(ets)
    /\ q \in QsCalls
    /\ q_shape = <<2>>
    /\ tool \in {NULL, PoseB}
    /\ J = [x \in 0..(6 * n - 1) |-> 7]
    /\ base = NULL /\ include_base = 0
    /\ Tep = NULL /\ Te = NULL /\ e = NULL /\ H = NULL
    /\ iter = 0 /\ arrived = 0
    /\ ret = NoRet
    /\ links = <<>> /\ calls = <<>> /\ heap = <<>>

SpecJacMixed == InitJacMixed /\ [][NextJac]_vars

\* the elements up to and including place p, with the tool folded in where
\* the base-frame walk folds it: at a last element that is a Joint
FoldedPrefix(p) ==
    IF p = Len(ets) /\ tool # NULL THEN mult(PrefixPose(p), tool) ELSE PrefixPose(p)

\* column c carries the axis of the Joint element at place p: for a rotation
\* in its angular rows, for a translation in its linear rows; the axis is a
\* column of the accumulator on the forward walk, a row on the backward walk
ColumnIsOfPlace(c, p) ==
    LET a == ets[p].axis % 3
        mine == IF ets[p].axis <= 2 THEN AngCol(J, c) ELSE LinCol(J, c)
    IN  IF ret.op \in {"fknm_ETS_jacob0", "methods_ETS_jacob0"}
        THEN mine = [k \in 0..2 |-> FoldedPrefix(p)[k * 4 + a]]
        ELSE mine = [k \in 0..2 |-> SuffixPose(p)[a * 4 + k]]

\* C22: a Static element is folded into the accumulator and consumes no
\* column: for a chain with exactly n Joint elements and Static elements in
\* any positions, jacobianBase and jacobianTool each write every column
\* 0..n-1 exactly once, and both give column c to the c-th Joint element.
C22_StaticTakesNoColumn ==
    (JacobianDone /\ NumJoints(ets) = n)
        => /\ ret.val.oob = {}
           /\ \A x \in 0..(6 * n - 1) : ret.val.W[x] = 1
           /\ \A p \in JointPlaces : ColumnIsOfPlace(ColumnOfPlace(p), p)

\* a Static element between two Joint elements, and one in front
C22_Witness ==
    /\ JacobianDone /\ n = 2 /\ Len(ets) = 3
    /\ ets[1].isjoint /\ ~ets[2].isjoint /\ ets[3].isjoint
    /\ PrefixPose(2) # PrefixPose(1)
    /\ AngCol(J, 0) # AngCol(J, 1)

----------------------------------------------------------------------------
(* Tree propagation over a list that is not parents-first *)

\* the parent of link i is listed after it
ParentLater(ls, i) == ls[i].parent > i

\* the list holds the same links at the same places: only caches differ
SamePlaces(before, after) ==
    /\ Len(after) = Len(before)
    /\ \A i \in 1..Len(before) :
          /\ after[i].parent = before[i].parent
          /\ after[i].jindex = before[i].jindex
          /\ after[i].isjoint = before[i].isjoint
          /\ after[i].A = before[i].A

\* C23: tree propagation visits the links in the supplied order and never
\* sorts them: a link visited before its parent gets fk = (the parent's fk
\* left by the previous pass) . local, and the parent's later update in the
\* same pass does not revisit that link.
C23_SuppliedOrder ==
    [][/\ SamePlaces(links, links')
       /\ \A i \in 1..Len(links) :
             ParentLater(links, i)
                => links'[i].fk = mult(links[links[i].parent].fk,
                                       A(links[i], q'[links[i].jindex]))]_vars

\* after a pass, a link listed before its parent whose fk is not what the
\* parent's new fk would give
C23_Witness ==
    /\ pc \in {"propagated", "done"}
    /\ \E i \in 1..Len(links) :
          /\ ParentLater(links, i)
          /\ links[i].fk # mult(links[links[i].parent].fk, A(links[i], q[links[i].jindex]))
          /\ links[links[i].parent].fk # StalePose

----------------------------------------------------------------------------
(* The local transform of a link *)

\* the generator of the link's axis at its joint value, negated on flip
LinkGenerator(link) ==
    Generator(link.axis, IF link.isflip THEN -q[link.jindex] ELSE q[link.jindex])

\* the elementary-transform rule: the fixed transform, or the generator alone
LocalByElementRule(link) == IF link.isjoint THEN LinkGenerator(link) ELSE link.A

\* the fixed transform, followed by the generator for a joint link
LocalFixedThenGenerator(link) ==
    IF link.isjoint THEN mult(link.A, LinkGenerator(link)) ELSE link.A

\* what link i is composed against when it is a root or listed after its parent
Against(i) == IF links[i].parent = 0 THEN base ELSE links[links[i].parent].fk

\* C24: in tree propagation a link's local transform follows the elementary
\* transform rule: a non-joint link contributes its fixed transform A
\* unchanged, a joint link the generator of its axis at the joint value
\* (negated when flip is set).
C24_LocalIsElementRule ==
    Propagated =>
        \A i \in 1..Len(links) :
            links[i].parent < i => links[i].fk = mult(Against(i), LocalByElementRule(links[i]))

\* C24 as amended: a non-joint link contributes A unchanged, a joint link
\* contributes A . generator(axis) at the joint value (negated on flip).
C24_LocalIsFixedThenGenerator ==
    Propagated =>
        \A i \in 1..Len(links) :
            links[i].parent < i
                => links[i].fk = mult(Against(i), LocalFixedThenGenerator(links[i]))

\* a joint link with a fixed part that does not commute with its generator,
\* a flipped joint link and a non-joint link, all propagated
C24_Witness ==
    /\ Propagated /\ ParentsFirst(links)
    /\ \E i \in 1..Len(links) :
          /\ links[i].isjoint /\ ~links[i].isflip
          /\ mult(links[i].A, LinkGenerator(links[i])) # mult(LinkGenerator(links[i]), links[i].A)
    /\ \E i \in 1..Len(links) : links[i].isjoint /\ links[i].isflip
    /\ \E i \in 1..Len(links) : ~links[i].isjoint

----------------------------------------------------------------------------
(* Writes of the Jacobians and the size of the output buffer *)

\* every Joint element references an index inside [0, n)
IndicesInside == \A p \in JointPlaces : ets[p].jindex \in 0..(n - 1)

\* C25: for every chain whose Joint elements reference indices inside [0, n),
\* chains with more than n Joint elements included, jacobianBase and
\* jacobianTool write only to entries J[r n + c] with 0 <= r < 6 and
\* 0 <= c < n, the offsets 0..6n-1 of the output buffer.
C25_WritesInsideBuffer ==
    (JacobianDone /\ IndicesInside) => ret.val.oob = {}

\* where it holds: chains with at most n Joint elements
WritesInsideBufferUpToN ==
    (JacobianDone /\ IndicesInside /\ NumJoints(ets) <= n) => ret.val.oob = {}

----------------------------------------------------------------------------
(* The tool and a trailing Static element *)

\* the chain followed by one Static element holding the tool
WithTrailingTool == Append(ets, Static(tool))

\* the base-frame Jacobian of the same routine on the extended chain, no tool
BaseJacobianTrailing ==
    IF ret.op = "fknm_ETS_jacob0"
    THEN fknm_ETS_jacob0(WithTrailingTool, n, q, NULL, JEmpty).J
    ELSE methods_ETS_jacob0(WithTrailingTool, n, q, NULL, JEmpty).J

\* C26: for every chain, q and rigid tool, jacobianBase(chain, q, tool) equals
\* jacobianBase(chain followed by one trailing Static(tool), q, no tool),
\* whether the chain's last element is a Joint or a Static element.
C26_ToolIsTrailingStatic ==
    (BaseJacobianReturned /\ tool # NULL /\ NumJoints(ets) = n)
        => J = BaseJacobianTrailing

\* where it holds: chains that do not end in a Joint element
ToolIsTrailingStaticAfterStatic ==
    (BaseJacobianReturned /\ tool # NULL /\ NumJoints(ets) = n
        /\ (ets = <<>> \/ ~ets[Len(ets)].isjoint))
        => J = BaseJacobianTrailing

\* with the trailing Static the last Joint's column is the stated formula
TrailingStaticFollowsFormula ==
    (pc = "done" /\ ret.op = "methods_ETS_jacob0" /\ tool # NULL /\ NumJoints(ets) = n)
        => \A p \in JointPlaces :
              /\ LinCol(BaseJacobianTrailing, ColumnOfPlace(p)) = FormulaColumn(p).lin
              /\ AngCol(BaseJacobianTrailing, ColumnOfPlace(p)) = FormulaColumn(p).ang

----------------------------------------------------------------------------
(* The two implementations of chain forward kinematics *)

\* C27: for every chain, q, base and tool, _ETS_fkine in fknm.c and
\* _ETS_fkine in methods.cpp produce the same 4x4 pose.
C27_FkineImplementationsAgree ==
    (pc = "done" /\ IsFkineOp)
        => /\ ret.val = fknm_ETS_fkine(ets, q, base, tool)
           /\ ret.val = methods_ETS_fkine(ets, q, base, tool)

\* where they agree: on the empty chain, whose loop body never runs
FkineImplementationsAgreeOnEmpty ==
    (pc = "done" /\ IsFkineOp /\ ets = <<>>)
        => /\ ret.val = fknm_ETS_fkine(ets, q, base, tool)
           /\ ret.val = methods_ETS_fkine(ets, q, base, tool)

----------------------------------------------------------------------------
(* Base-frame and tool-frame Jacobian of the same file *)

\* the tool-frame Jacobian of the file whose base-frame Jacobian was returned
ToolJacobianOfSameFile ==
    IF ret.op = "fknm_ETS_jacob0" THEN FknmToolJacobian ELSE ToolJacobian

\* blockdiag(R, R) . Je, entry by entry of the 6 x n array
RotatedRows(R, Je) ==
    [x \in 0..(6 * n - 1) |->
        LET r == x \div n
            c == x % n
        IN  IF r < 3 THEN MulVec3(R, LinCol(Je, c))[r] ELSE MulVec3(R, AngCol(Je, c))[r - 3]]

\* C28: for every chain without a tool and every q, jacobianBase =
\* blockdiag(R, R) . jacobianTool with R the rotation block of the end pose
\* E_1 ... E_k: linear and angular rows of each base-frame column are the
\* tool-frame rows rotated by R, with no translation-dependent term.
C28_RotatedToolJacobian ==
    (BaseJacobianReturned /\ tool = NULL /\ NumJoints(ets) = n)
        => J = RotatedRows(RotationOf(ChainProduct(ets, q, NULL, NULL)), ToolJacobianOfSameFile)

\* where it holds: the pair of methods.cpp
RotatedToolJacobianMethods ==
    (pc = "done" /\ ret.op = "methods_ETS_jacob0" /\ tool = NULL /\ NumJoints(ets) = n)
        => J = RotatedRows(RotationOf(ChainProduct(ets, q, NULL, NULL)), ToolJacobian)

----------------------------------------------------------------------------
(* compose on buffers that may be the same array *)

\* fknm.c 1976-1994: mult(A, B, C) on the buffers named a, b, c of the
\* arrays h, from entry x = i * 4 + j on: C[i * N + j] is stored as soon as
\* it is computed, and later entries read A and B as they are by then
RECURSIVE mult_from(_, _, _, _, _)
mult_from(h, a, b, c, x) ==
    IF x > 15
    THEN h
    ELSE LET i == x \div 4
             j == x % 4
             num == h[a][i * 4 + 0] * h[b][0 * 4 + j] + h[a][i * 4 + 1] * h[b][1 * 4 + j]
                    + h[a][i * 4 + 2] * h[b][2 * 4 + j] + h[a][i * 4 + 3] * h[b][3 * 4 + j]
         IN  mult_from([h EXCEPT ![c][x] = num], a, b, c, x + 1)

\* fknm.c 1225-1244: compose(py_A, py_B, py_C) calls mult on their data
compose(h, py_A, py_B, py_C) == mult_from(h, py_A, py_B, py_C, 0)

\* the arrays the caller holds
Arrays == {"X", "Y", "Z"}

ArrayContents == {_eye4, PoseA, PoseB, mult(ry(1), tx(1))}

InitCompose ==
    /\ pc = "compose"
    /\ heap \in [Arrays -> ArrayContents]
    /\ calls = <<>>
    /\ ets = <<>> /\ n = 0 /\ q = <<>> /\ q_shape = <<0>>
    /\ base = NULL /\ tool = NULL /\ include_base = 0
    /\ Tep = NULL /\ Te = NULL /\ e = NULL /\ J = NULL /\ H = NULL
    /\ iter = 0 /\ arrived = 0
    /\ ret = NoRet
    /\ links = <<>>

\* compose(A, B, C) on any three of the arrays; the log keeps the arguments
\* and the contents at entry
Call_compose ==
    /\ pc = "compose"
    /\ \E py_A \in Arrays, py_B \in Arrays, py_C \in Arrays :
          /\ heap' = compose(heap, py_A, py_B, py_C)
          /\ calls' = <<[op |-> "compose", A |-> py_A, B |-> py_B, C |-> py_C,
                         entry |-> heap]>>
    /\ ret' = [op |-> "compose", val |-> NULL]
    /\ pc' = "done"
    /\ UNCHANGED <<ets, n, q, q_shape, base, tool, include_base, Tep, Te, e, J, H, iter, arrived, links>>

NextCompose == Call_compose

SpecCompose == InitCompose /\ [][NextCompose]_vars

\* C holds the product of what A and B held at entry; no other array changed
ComposedAsProduct(call) ==
    /\ heap[call.C] = mult(call.entry[call.A], call.entry[call.B])
    /\ \A x \in Arrays \ {call.C} : heap[x] = call.entry[x]

\* C29: compose(A, B, C) stores the matrix product A . B in C and leaves A
\* and B unchanged, for every choice of the three 4x4 buffers, including
\* calls in which C is the same buffer as A or as B.
C29_ComposeAnyBuffers ==
    (pc = "done" /\ ret.op = "compose") => ComposedAsProduct(calls[1])

\* where it holds: C is a buffer of its own
ComposeIntoOwnBuffer ==
    (pc = "done" /\ ret.op = "compose" /\ calls[1].C \notin {calls[1].A, calls[1].B})
        => ComposedAsProduct(calls[1])

----------------------------------------------------------------------------
(* Every entry of the Hessian is assigned *)

\* C30: _ETS_hessian assigns every one of the n . 6 . n entries of H exactly
\* once (the entries H[a][., b] with b >= a by the cross products, those with
\* b < a by the mirror step, never both), so the returned tensor is a
\* function of J alone and holds no value left by the uninitialised buffer.
C30_EveryEntryAssignedOnce ==
    HessianDone =>
        /\ DOMAIN ret.val = 0..(n * 6 * n - 1)
        /\ \A x \in 0..(n * 6 * n - 1) : ret.val[x] = 1
        /\ \A H0 \in EmptyBuffers(n * 6 * n) : H = _ETS_hessian(n, J, H0).H

\* two or more joints, with a mirrored entry and an angular entry that are
\* neither zero nor what the buffer could have held
C30_Witness ==
    /\ HessianDone /\ n >= 2
    /\ HAt(1, 0, 0) \notin {0, 7, (1 * 6 * n) - 3}
    /\ HAt(0, 3, 1) \notin {0, 7, (3 * n + 1) - 3}

====
